---- MODULE Spec2Model ----
(***************************************************************************)
(* A verification model of the Unreal index service.                       *)
(*                                                                         *)
(*   Part 1  QueryPool           (worker pool, src/unnamed/part_005)       *)
(*   Part 2  ZoektManager        (service/zoekt-manager.js)                *)
(*   Part 3  Trigram module      (service/trigram.js)                      *)
(*   Part 4  Ingest service      (store / memory index / mirror)           *)
(*   Part 5  HTTP API            (/grep and /health, service/api.js,       *)
(*                                service/grep-worker.js)                  *)
(*   Part 6  Type scoring        (service/scoring.js)                      *)
(*   Part 7  POST /batch                                                   *)
(*   Part 8  findChildrenOf      (src/indexer.js)                          *)
(*   Part 9  ZoektMirror         (service/zoekt-mirror.js)                 *)
(*   Part 10 MCP bridge          (bridge/mcp-bridge.js)                    *)
(*   Part 11 Setup GUI           (workspaces, src/setup-gui.js)            *)
(*                                                                         *)
(* Each part has its own specification; the variables of the other parts   *)
(* are held at their initial values by that specification.                 *)
(***************************************************************************)
EXTENDS Integers, Sequences, FiniteSets, TLC

(***************************************************************************)
(* State                                                                   *)
(***************************************************************************)

\* QueryPool
VARIABLES
  workers,     \* this.workers: JS array of entry ids, 0 is an empty slot (hole)
  entries,     \* every entry object ever created by _spawnWorker, by id
  queue,       \* this.queue: request ids waiting for a worker
  nextId,      \* this.nextId
  timers,      \* live setTimeout handles of _dispatch: [req, entry]
  promise,     \* the promise execute() returned for each request id
  phase,       \* "new" (constructed), "spawned", "shutdown"
  crashed,     \* an exception escaped an event handler of the main thread
  lastOp       \* the handler that ran last and what it was given

poolVars == <<workers, entries, queue, nextId, timers, promise, phase, crashed, lastOp>>

\* ZoektManager
VARIABLES
  zMirrorRoot,    \* this.mirrorRoot has been set
  zIndexProcess,  \* this.indexProcess: a process id, 0 for null
  zProcs,         \* the zoekt-index child processes that are running
  zNextPid,       \* the number of zoekt-index processes spawned so far
  zSuspended,     \* runIndex calls waiting at `await this._syncMirrorToWsl()`
  zTimer,         \* this.reindexTimer is a pending timeout
  zTimerLeft,     \* clock ticks until that timeout is due
  zBurst,         \* the triggerReindex() calls seen by the clock (see BurstInit)
  zWeb,           \* this.webProcess is set: the web-server process is running
  zAvailable,     \* this.available
  zRestartAttempts,     \* this.restartAttempts
  zMaxRestartAttempts,  \* this.maxRestartAttempts
  zRestartTimer,  \* delay (ms) of the pending restart timeout, 0 for none
  zPolls,         \* _waitForHealthy loops that are still polling
  zWebStarts,     \* web-server processes spawned so far
  zStopPc,        \* stop(): "no", "indexWait", "webWait", "done"
  zLog            \* what the handlers did last (see ZLogInit)

webVars ==
  <<zWeb, zAvailable, zRestartAttempts, zMaxRestartAttempts, zRestartTimer, zPolls,
    zWebStarts, zStopPc, zLog>>

zoektVars ==
  <<zMirrorRoot, zIndexProcess, zProcs, zNextPid, zSuspended, zTimer, zTimerLeft, zBurst,
    webVars>>

\* Trigram module: one call of patternToTrigrams and the text it is held against
VARIABLES
  tgPattern,      \* the pattern argument, a sequence of UTF-16 code units
  tgText,         \* a file's content, a sequence of UTF-16 code units
  tgIgnoreCase,   \* the search runs with the `i` flag
  tgIndexed,      \* the trigrams extractTrigrams returned for the content
  tgResult,       \* the trigrams patternToTrigrams returned
  tgPc            \* "idle", "input", "indexed" (content indexed), "done" (query answered)

trigramVars == <<tgPattern, tgText, tgIgnoreCase, tgIndexed, tgResult, tgPc>>

\* Ingest service with the durable store, the memory index and the mirror
VARIABLES
  igStore,        \* the committed store: file rows by path, trigram postings
  igTx,           \* the open transaction's view of the store
  igMemory,       \* the memory-index snapshot that readers are handed
  igBuilding,     \* the snapshot ingestDiff is building
  igMirror,       \* the mirror directory: content by path
  igBatch,        \* the batch being applied (or the last one applied)
  igPos,          \* the next item of the batch to apply
  igTouched,      \* ids of the files the transaction patched or removed
  igMirrorOps,    \* mirror work the transaction has queued for after commit
  igPc,           \* "idle", "tx", "committed", "patching", "published"
  igCount,        \* batches accepted so far
  igOutcome,      \* how the last batch ended: "none", "running", "done", "rolledback"
  igBefore,       \* store, memory index and mirror when the batch was accepted
  igReplay,       \* the batch repeats the batch that completed just before it
  igRead          \* the last read of the memory index

ingestVars ==
  <<igStore, igTx, igMemory, igBuilding, igMirror, igBatch, igPos, igTouched,
    igMirrorOps, igPc, igCount, igOutcome, igBefore, igReplay, igRead>>

\* One GET /grep request and its worker thread
VARIABLES
  gPc,            \* "idle" (no request yet), "serving" (worker started), "refused" (400)
  gFiles,         \* workerData.files: for each file the number of its matching lines
  gMaxResults,    \* workerData.maxResults
  gTimer,         \* timeoutId is a pending timeout
  gResponded,     \* the handler's `responded` flag
  gResponses,     \* the responses written to res, in order
  gClosed,        \* res has emitted 'close'
  gMsg,           \* the worker's 'complete' message on its way to the handler
  gErrEvent,      \* a worker 'error' event on its way to the handler
  wState,         \* "none", "scanning", "posted", "failed", "terminated"
  wIdx,           \* the scan loop's position in the file list
  wResults,       \* results.length
  wTotalMatches,  \* totalMatches
  wFilesSearched, \* filesSearched
  wAborted,       \* the worker's `aborted` flag
  wInbox,         \* 'abort' messages posted to the worker and not yet handled
  gLog            \* what the handlers did: aborts posted, expiry, early close

grepVars ==
  <<gPc, gFiles, gMaxResults, gTimer, gResponded, gResponses, gClosed, gMsg,
    gErrEvent, wState, wIdx, wResults, wTotalMatches, wFilesSearched, wAborted,
    wInbox, gLog>>

\* GET /health
VARIABLES
  hRequests,    \* /health requests received
  hResponses,   \* /health responses sent
  hDuringScan   \* a /health request arrived while a grep worker was scanning

healthVars == <<hRequests, hResponses, hDuringScan>>

\* Type deduplication: one call of dedupTypes
VARIABLES
  scResults,    \* the argument: a list of type records
  scDeduped,    \* the list dedupTypes returned
  scPc          \* "idle", "input", "done"

scoringVars == <<scResults, scDeduped, scPc>>

\* POST /batch: one request
VARIABLES
  bPc,        \* "idle", "done"
  bQueries,   \* the queries array of the request body
  bStatus,    \* the HTTP status of the response, 0 before it
  bResults,   \* the results array of the response
  bExecuted   \* the inner queries that were run, in order

batchVars == <<bPc, bQueries, bStatus, bResults, bExecuted>>

\* Indexer.findChildrenOf: one call
VARIABLES
  cPc,        \* "idle", "loop" (in the while loop), "done"
  cGraph,     \* index.lookups.parentToChildren: the children of each type
  cRecursive, \* options.recursive
  cQueue,     \* queue
  cChildren,  \* children
  cEnqueued,  \* how often each type has been put on the queue
  cRounds     \* iterations of the while loop so far

childrenVars == <<cPc, cGraph, cRecursive, cQueue, cChildren, cEnqueued, cRounds>>

\* ZoektMirror: the mirror directory and the store it is rebuilt from
VARIABLES
  mStore,     \* the store's file rows in ROWID order: path, language, content blob
  mDisk,      \* the files under mirrorDir: content by path relative to mirrorDir
  mPrefix,    \* this.pathPrefix
  mMarker,    \* the marker file: <<>> while it is absent, else <<its JSON>>
  mOps,       \* operations run so far
  mLog        \* the operation that ran last and what it met

mirrorVars == <<mStore, mDisk, mPrefix, mMarker, mOps, mLog>>

\* MCP bridge: workspace routing and the tool call handler
VARIABLES
  brPc,         \* "start", "ready" (configuration loaded), "awaiting" (query in flight)
  brUrls,       \* workspaceUrls: the port of each workspace name
  brDefault,    \* defaultWorkspace: {} for undefined, else {name}
  brCall,       \* the tool call being answered or answered last
  brServiceUrl, \* serviceUrl of that call, as a port; 0 when none was resolved
  brResult,     \* the result returned for it
  brHttp,       \* every HTTP request the bridge has sent, in order
  brLog         \* calls so far, and the requests sent before the call began

bridgeVars == <<brPc, brUrls, brDefault, brCall, brServiceUrl, brResult, brHttp, brLog>>

\* Setup GUI: workspaces.json
VARIABLES
  suWorkspaces, \* wsConfig.workspaces in key order: name, port, volumePrefix ("" when absent)
  suDefault,    \* wsConfig.defaultWorkspace ("" when absent)
  suStatus,     \* the HTTP status of the last response, 0 before any
  suOps         \* requests handled so far

setupVars == <<suWorkspaces, suDefault, suStatus, suOps>>

\* the parts that follow the type scoring
restVars == <<batchVars, childrenVars, mirrorVars, bridgeVars, setupVars>>

vars ==
  <<poolVars, zoektVars, trigramVars, ingestVars, grepVars, healthVars, scoringVars,
    restVars>>

\* What a step of one part leaves alone.
PoolOnly == UNCHANGED <<restVars, healthVars, scoringVars, zoektVars, trigramVars, ingestVars, grepVars>>
ZoektOnly == UNCHANGED <<restVars, healthVars, scoringVars, poolVars, trigramVars, ingestVars, grepVars>>
TrigramOnly == UNCHANGED <<restVars, healthVars, scoringVars, poolVars, zoektVars, ingestVars, grepVars>>
IngestOnly == UNCHANGED <<restVars, healthVars, scoringVars, poolVars, zoektVars, trigramVars, grepVars>>
GrepOnly ==
  UNCHANGED <<poolVars, zoektVars, trigramVars, ingestVars, healthVars, scoringVars,
              restVars>>
ScoringOnly ==
  UNCHANGED <<poolVars, zoektVars, trigramVars, ingestVars, grepVars, healthVars,
              restVars>>
EarlierParts ==
  UNCHANGED <<poolVars, zoektVars, trigramVars, ingestVars, grepVars, healthVars,
              scoringVars>>
BatchOnly == EarlierParts /\ UNCHANGED <<childrenVars, mirrorVars, bridgeVars, setupVars>>
ChildrenOnly == EarlierParts /\ UNCHANGED <<batchVars, mirrorVars, bridgeVars, setupVars>>
MirrorOnly == EarlierParts /\ UNCHANGED <<batchVars, childrenVars, bridgeVars, setupVars>>
BridgeOnly == EarlierParts /\ UNCHANGED <<batchVars, childrenVars, mirrorVars, setupVars>>
SetupOnly == EarlierParts /\ UNCHANGED <<batchVars, childrenVars, mirrorVars, bridgeVars>>

(***************************************************************************)
(* Part 1: QueryPool                                                       *)
(***************************************************************************)

\* The pool size the model runs with (the constructor's workerCount argument).
WorkerCount == 2

\* Bounds of the pool model: requests submitted, Worker objects ever created.
MaxRequests == 3
MaxEntries == 4

Hole == 0
ReqIds == 0 .. (MaxRequests - 1)
NoOp == [op |-> "none", req |-> -1, entry |-> 0, qhead |-> -1]

Max(a, b) == IF a >= b THEN a ELSE b

\* const entry = { worker, busy: false, pending: new Map(), index }
NewEntry(index, respawn) ==
  [index |-> index, busy |-> FALSE, pending |-> {}, thread |-> "starting",
   inbox |-> <<>>, respawn |-> respawn]

\* this.workers[index] = entry, on a JS array (a store past the end leaves holes)
SetSlot(ws, i, e) ==
  [k \in 1 .. Max(Len(ws), i) |->
     IF k = i THEN e ELSE IF k <= Len(ws) THEN ws[k] ELSE Hole]

\* this.workers.find(w => !w.busy): visits holes as undefined, where w.busy throws
RECURSIVE FindFrom(_, _, _)
FindFrom(ws, es, i) ==
  IF i > Len(ws) THEN [kind |-> "none", entry |-> 0]
  ELSE IF ws[i] = Hole THEN [kind |-> "throw", entry |-> 0]
  ELSE IF ~es[ws[i]].busy THEN [kind |-> "found", entry |-> ws[i]]
  ELSE FindFrom(ws, es, i + 1)

FindIdle(ws, es) == FindFrom(ws, es, 1)

\* The part of the pool the helpers below rewrite.
PoolState == [workers |-> workers, entries |-> entries, queue |-> queue,
              timers |-> timers, promise |-> promise, threw |-> FALSE]

\* resolve/reject of a promise: only the first settlement counts
Settle(pr, r, how) == IF pr[r] = "pending" THEN [pr EXCEPT ![r] = how] ELSE pr

RECURSIVE SettleAll(_, _, _)
SettleAll(pr, rs, how) ==
  IF rs = {} THEN pr
  ELSE LET r == CHOOSE x \in rs : TRUE
       IN SettleAll(Settle(pr, r, how), rs \ {r}, how)

\* _dispatch(entry, request)
Dispatch(P, e, r) ==
  [P EXCEPT !.entries[e].busy = TRUE,
            !.entries[e].pending = @ \cup {r},
            !.entries[e].inbox =
               IF P.entries[e].thread \in {"starting", "running"} THEN Append(@, r) ELSE @,
            !.timers = @ \cup {[req |-> r, entry |-> e]}]

\* _processQueue()
\* a pool that never looks at its queue
ProcessQueueSkip(P) == P

RECURSIVE ProcessQueue(_)
ProcessQueue(P) ==
  IF P.queue = <<>> THEN P
  ELSE LET f == FindIdle(P.workers, P.entries)
       IN CASE f.kind = "throw" -> [P EXCEPT !.threw = TRUE]
            [] f.kind = "none" -> P
            [] OTHER -> ProcessQueue(
                 Dispatch([P EXCEPT !.queue = Tail(@)], f.entry, Head(P.queue)))

\* _spawnWorker(index): a new Worker and its entry, stored at workers[index]
SpawnWorker(P, index, respawn) ==
  [P EXCEPT !.entries = Append(@, NewEntry(index, respawn)),
            !.workers = SetSlot(@, index, Len(P.entries) + 1)]

\* _replaceWorker(index)
ReplaceWorker(P, index) == SpawnWorker(P, index, TRUE)

RECURSIVE SpawnAll(_, _)
SpawnAll(P, i) ==
  IF i > WorkerCount THEN P ELSE SpawnAll(SpawnWorker(P, i, FALSE), i + 1)

Install(P) ==
  /\ workers' = P.workers
  /\ entries' = P.entries
  /\ queue' = P.queue
  /\ timers' = P.timers
  /\ promise' = P.promise

PoolInit ==
  /\ workers = <<>>
  /\ entries = <<>>
  /\ queue = <<>>
  /\ nextId = 0
  /\ timers = {}
  /\ promise = [r \in ReqIds |-> "none"]
  /\ phase = "new"
  /\ crashed = FALSE
  /\ lastOp = NoOp

\* spawn()
Spawn ==
  /\ ~crashed
  /\ phase = "new"
  /\ Install(SpawnAll(PoolState, 1))
  /\ phase' = "spawned"
  /\ lastOp' = [NoOp EXCEPT !.op = "spawn"]
  /\ UNCHANGED <<nextId, crashed>>
  /\ PoolOnly

\* execute(method, args, timeoutMs)
Execute ==
  /\ ~crashed
  /\ nextId < MaxRequests
  /\ LET r == nextId
         P0 == [PoolState EXCEPT !.promise[r] = "pending"]
         f == FindIdle(workers, entries)
         P1 == CASE f.kind = "throw" -> [P0 EXCEPT !.promise[r] = "rejThrow"]
                 [] f.kind = "found" -> Dispatch(P0, f.entry, r)
                 [] OTHER -> [P0 EXCEPT !.queue = Append(@, r)]
     IN /\ Install(P1)
        /\ lastOp' = [op |-> "execute", req |-> r, entry |-> f.entry,
                      qhead |-> IF queue = <<>> THEN -1 ELSE Head(queue)]
  /\ nextId' = nextId + 1
  /\ UNCHANGED <<phase, crashed>>
  /\ PoolOnly

\* worker.on('message') with msg.type === 'ready'; for a worker made by
\* _replaceWorker the promise's then() runs _processQueue, its catch() logs
Ready(e) ==
  /\ ~crashed
  /\ e \in 1 .. Len(entries)
  /\ entries[e].thread = "starting"
  /\ LET P0 == [PoolState EXCEPT !.entries[e].thread = "running"]
         P1 == IF entries[e].respawn THEN ProcessQueue(P0) ELSE P0
     IN /\ Install(P1)
        /\ lastOp' = [op |-> "ready", req |-> -1, entry |-> e,
                      qhead |-> IF queue = <<>> THEN -1 ELSE Head(queue)]
  /\ UNCHANGED <<nextId, phase, crashed>>
  /\ PoolOnly

\* worker.on('message') with a reply: the worker answers the oldest message it
\* was posted, with a result or with msg.error
Reply(e, isError) ==
  /\ ~crashed
  /\ e \in 1 .. Len(entries)
  /\ entries[e].thread = "running"
  /\ entries[e].inbox # <<>>
  /\ LET r == Head(entries[e].inbox)
         P0 == [PoolState EXCEPT !.entries[e].inbox = Tail(@)]
         left == entries[e].pending \ {r}
         P1 == [P0 EXCEPT !.entries[e].pending = left,
                          !.entries[e].busy = IF left = {} THEN FALSE ELSE @,
                          !.timers = @ \ {[req |-> r, entry |-> e]},
                          !.promise = Settle(@, r, IF isError THEN "rejError" ELSE "resolved")]
         P2 == IF r \in entries[e].pending THEN ProcessQueue(P1) ELSE P0
     IN /\ Install(P2)
        /\ crashed' = P2.threw
        /\ lastOp' = [op |-> "reply", req |-> r, entry |-> e,
                      qhead |-> IF queue = <<>> THEN -1 ELSE Head(queue)]
  /\ UNCHANGED <<nextId, phase>>
  /\ PoolOnly

\* the setTimeout callback of _dispatch
Timeout(r, e) ==
  /\ ~crashed
  /\ [req |-> r, entry |-> e] \in timers
  /\ LET left == entries[e].pending \ {r}
         P1 == [PoolState EXCEPT !.timers = @ \ {[req |-> r, entry |-> e]},
                                 !.entries[e].pending = left,
                                 !.entries[e].busy = IF left = {} THEN FALSE ELSE @,
                                 !.promise = Settle(@, r, "rejTimeout")]
         P2 == ProcessQueue(P1)
     IN /\ Install(P2)
        /\ crashed' = P2.threw
        /\ lastOp' = [op |-> "timeout", req |-> r, entry |-> e,
                      qhead |-> IF queue = <<>> THEN -1 ELSE Head(queue)]
  /\ UNCHANGED <<nextId, phase>>
  /\ PoolOnly

\* worker.on('error'): an uncaught exception in the worker thread
WorkerError(e) ==
  /\ ~crashed
  /\ e \in 1 .. Len(entries)
  /\ entries[e].thread \in {"starting", "running"}
  /\ Len(entries) < MaxEntries
  /\ LET pend == entries[e].pending
         P1 == [PoolState EXCEPT !.entries[e].thread = "failed",
                                 !.entries[e].inbox = <<>>,
                                 !.entries[e].pending = {},
                                 !.timers = {t \in @ : ~(t.entry = e /\ t.req \in pend)},
                                 !.promise = SettleAll(@, pend, "rejWorker")]
     IN /\ Install(ReplaceWorker(P1, entries[e].index))
        /\ lastOp' = [op |-> "error", req |-> -1, entry |-> e,
                      qhead |-> IF queue = <<>> THEN -1 ELSE Head(queue)]
  /\ UNCHANGED <<nextId, phase, crashed>>
  /\ PoolOnly

\* The exit code a stopping worker thread reports: 1 after an uncaught
\* exception and after terminate(). (A worker that keeps a parentPort listener
\* does not stop on its own.)
ExitCodes(e) ==
  IF entries[e].thread \in {"failed", "terminating"} THEN {1} ELSE {}

\* worker.on('exit')
WorkerExit(e, code) ==
  /\ ~crashed
  /\ e \in 1 .. Len(entries)
  /\ entries[e].thread # "exited"
  /\ code \in ExitCodes(e)
  /\ code # 0 => Len(entries) < MaxEntries
  /\ LET P1 == [PoolState EXCEPT !.entries[e].thread = "exited"]
     IN Install(IF code # 0 THEN ReplaceWorker(P1, entries[e].index) ELSE P1)
  /\ lastOp' = [op |-> "exit", req |-> code, entry |-> e,
                qhead |-> IF queue = <<>> THEN -1 ELSE Head(queue)]
  /\ UNCHANGED <<nextId, phase, crashed>>
  /\ PoolOnly

\* The loop body of shutdown() for one element of this.workers
RECURSIVE ShutdownFrom(_, _)
ShutdownFrom(P, i) ==
  IF i > Len(P.workers) THEN P
  ELSE IF P.workers[i] = Hole THEN ShutdownFrom(P, i + 1)
  ELSE LET e == P.workers[i]
           pend == P.entries[e].pending
       IN ShutdownFrom(
            [P EXCEPT !.timers = {t \in @ : ~(t.entry = e /\ t.req \in pend)},
                      !.promise = SettleAll(@, pend, "rejShutdown"),
                      !.entries[e].inbox = <<>>,
                      !.entries[e].thread =
                         IF @ = "exited" THEN @ ELSE "terminating"],
            i + 1)

\* shutdown()
Shutdown ==
  /\ ~crashed
  /\ phase = "spawned"
  /\ LET P1 == ShutdownFrom(PoolState, 1)
     IN Install([P1 EXCEPT !.workers = <<>>, !.queue = <<>>])
  /\ phase' = "shutdown"
  /\ lastOp' = [op |-> "shutdown", req |-> -1, entry |-> 0,
                qhead |-> IF queue = <<>> THEN -1 ELSE Head(queue)]
  /\ UNCHANGED <<nextId, crashed>>
  /\ PoolOnly

PoolNext ==
  \/ Spawn
  \/ Execute
  \/ \E e \in 1 .. MaxEntries : Ready(e)
  \/ \E e \in 1 .. MaxEntries, isError \in BOOLEAN : Reply(e, isError)
  \/ \E r \in ReqIds, e \in 1 .. MaxEntries : Timeout(r, e)
  \/ \E e \in 1 .. MaxEntries : WorkerError(e)
  \/ \E e \in 1 .. MaxEntries, code \in {0, 1} : WorkerExit(e, code)
  \/ Shutdown

(***************************************************************************)
(* Part 2: ZoektManager, indexer runs                                      *)
(***************************************************************************)

\* Bounds of the indexer model: processes spawned, calls suspended at once.
MaxIndexProcs == 2
MaxSuspended == 2

\* consec: exits of the web server since the last successful health check;
\* exits: exit handlers run; delay: the restart delay the last exit handler
\* scheduled (0: none); stopped: stop() had been invoked when it ran
ZLogInit == [consec |-> 0, exits |-> 0, delay |-> 0, stopped |-> FALSE]

\* Bound: the debounce window (this.reindexDebounceMs) in clock ticks.
DebounceTicks == 2

\* called: triggerReindex() armed the timer since construction or stop();
\* calls: calls of the current burst (counted up to 2); since: ticks since the
\* last call (counted up to DebounceTicks + 1); runs: runIndex invocations made
\* by the timer since the burst began
BurstInit == [called |-> FALSE, calls |-> 0, since |-> 0, runs |-> 0]

ZoektInit ==
  /\ zMirrorRoot = FALSE
  /\ zIndexProcess = 0
  /\ zProcs = {}
  /\ zNextPid = 0
  /\ zSuspended = 0
  /\ zTimer = FALSE
  /\ zTimerLeft = 0
  /\ zBurst = BurstInit
  /\ zWeb = FALSE
  /\ zAvailable = FALSE
  /\ zRestartAttempts = 0
  /\ zMaxRestartAttempts = 5
  /\ zRestartTimer = 0
  /\ zPolls = 0
  /\ zWebStarts = 0
  /\ zStopPc = "no"
  /\ zLog = ZLogInit

\* runIndex(mirrorRoot) up to its first await: store the root, return when an
\* index process is recorded, otherwise suspend on the mirror sync
RunIndexEnter ==
  /\ zMirrorRoot' = TRUE
  /\ IF zIndexProcess # 0
       THEN zSuspended' = zSuspended
       ELSE zSuspended' = zSuspended + 1

\* a direct call of runIndex(mirrorRoot)
RunIndexCall ==
  /\ zSuspended < MaxSuspended
  /\ RunIndexEnter
  /\ UNCHANGED <<zIndexProcess, zProcs, zNextPid, zTimer, zTimerLeft, zBurst>>
  /\ UNCHANGED webVars
  /\ ZoektOnly

\* runIndex after the await: spawn zoekt-index and record it
RunIndexSpawn ==
  /\ zSuspended > 0
  /\ zNextPid < MaxIndexProcs
  /\ zSuspended' = zSuspended - 1
  /\ zNextPid' = zNextPid + 1
  /\ zIndexProcess' = zNextPid + 1
  /\ zProcs' = zProcs \cup {zNextPid + 1}
  /\ UNCHANGED <<zMirrorRoot, zTimer, zTimerLeft, zBurst>>
  /\ UNCHANGED webVars
  /\ ZoektOnly

\* indexProcess.on('exit') and .on('error'): both clear this.indexProcess
IndexExit(p) ==
  /\ p \in zProcs
  /\ zProcs' = zProcs \ {p}
  /\ zIndexProcess' = 0
  /\ UNCHANGED <<zMirrorRoot, zNextPid, zSuspended, zTimer, zTimerLeft, zBurst>>
  /\ UNCHANGED webVars
  /\ ZoektOnly

\* a timer armed while another may be pending, if triggerReindex() kept it
DebounceKeep(timer, left) == IF timer THEN left ELSE DebounceTicks

\* clearTimeout(this.reindexTimer) and setTimeout(..., this.reindexDebounceMs):
\* the new timeout is a whole window away
DebounceArm(timer, left) == DebounceTicks

\* triggerReindex()
TriggerReindex ==
  /\ IF ~zMirrorRoot
       THEN UNCHANGED <<zTimer, zTimerLeft, zBurst>>
       ELSE /\ zTimer' = TRUE
            /\ zTimerLeft' = DebounceArm(zTimer, zTimerLeft)
            /\ zBurst' =
                 IF zBurst.called /\ zBurst.since < DebounceTicks
                   THEN [zBurst EXCEPT !.since = 0, !.calls = IF @ < 2 THEN @ + 1 ELSE @]
                   ELSE [called |-> TRUE, calls |-> 1, since |-> 0, runs |-> 0]
  /\ UNCHANGED <<zMirrorRoot, zIndexProcess, zProcs, zNextPid, zSuspended>>
  /\ UNCHANGED webVars
  /\ ZoektOnly

\* the debounce timer's callback
ReindexTimerFire ==
  /\ zTimer
  /\ zTimerLeft = 0
  /\ zSuspended < MaxSuspended
  /\ zTimer' = FALSE
  /\ zTimerLeft' = 0
  /\ zBurst' = [zBurst EXCEPT !.runs = IF @ < 2 THEN @ + 1 ELSE @]
  /\ RunIndexEnter
  /\ UNCHANGED <<zIndexProcess, zProcs, zNextPid>>
  /\ UNCHANGED webVars
  /\ ZoektOnly

\* the clock advances by one tick; a timeout that is due runs first
Tick ==
  /\ zTimer \/ (zBurst.called /\ zBurst.since <= DebounceTicks)
  /\ zTimer => zTimerLeft > 0
  /\ zTimerLeft' = IF zTimer THEN zTimerLeft - 1 ELSE zTimerLeft
  /\ zBurst' = [zBurst EXCEPT !.since = IF @ <= DebounceTicks THEN @ + 1 ELSE @]
  /\ UNCHANGED <<zMirrorRoot, zIndexProcess, zProcs, zNextPid, zSuspended, zTimer>>
  /\ UNCHANGED webVars
  /\ ZoektOnly

\* --- the web server (its restart timeouts carry their delay and are not
\* measured against the clock)

\* Bound of the web-server model: processes spawned.
MaxWebStarts == 6

\* a delay that grows by one second per attempt
RestartDelayLinear(attempts) == 1000 * (attempts + 1)

\* Math.min(1000 * Math.pow(2, attempts), 30000)
RestartDelay(attempts) ==
  IF 1000 * 2^attempts < 30000 THEN 1000 * 2^attempts ELSE 30000

IndexerUnchanged ==
  UNCHANGED <<zMirrorRoot, zIndexProcess, zProcs, zNextPid, zSuspended>>

TimerUnchanged == UNCHANGED <<zTimer, zTimerLeft, zBurst>>

\* _startWebserver(): spawn the process and start polling its health
StartWebserver ==
  /\ zWeb' = TRUE
  /\ zWebStarts' = zWebStarts + 1
  /\ zPolls' = zPolls + 1

\* start()
Start ==
  /\ zWebStarts = 0
  /\ zStopPc = "no"
  /\ StartWebserver
  /\ UNCHANGED <<zAvailable, zRestartAttempts, zMaxRestartAttempts, zRestartTimer,
                 zStopPc, zLog>>
  /\ TimerUnchanged
  /\ IndexerUnchanged
  /\ ZoektOnly

\* the restart timeout set by the exit handler fires
RestartTimerFire ==
  /\ zRestartTimer # 0
  /\ zWebStarts < MaxWebStarts
  /\ zRestartTimer' = 0
  /\ StartWebserver
  /\ UNCHANGED <<zAvailable, zRestartAttempts, zMaxRestartAttempts, zStopPc, zLog>>
  /\ TimerUnchanged
  /\ IndexerUnchanged
  /\ ZoektOnly

\* the exit handler's test against the constructor's limit
ShouldRestartInitialLimit(attempts, max) == attempts < 5

\* the exit handler's test: this.restartAttempts < this.maxRestartAttempts
ShouldRestart(attempts, max) == attempts < max

\* webProcess.on('exit')
WebExit ==
  /\ zWeb
  /\ zAvailable' = FALSE
  /\ zWeb' = FALSE
  /\ IF ShouldRestart(zRestartAttempts, zMaxRestartAttempts)
       THEN /\ zRestartTimer' = RestartDelay(zRestartAttempts)
            /\ zRestartAttempts' = zRestartAttempts + 1
       ELSE UNCHANGED <<zRestartTimer, zRestartAttempts>>
  /\ zLog' = [consec |-> zLog.consec + 1,
              exits |-> zLog.exits + 1,
              delay |-> IF ShouldRestart(zRestartAttempts, zMaxRestartAttempts)
                          THEN RestartDelay(zRestartAttempts) ELSE 0,
              stopped |-> zStopPc # "no"]
  /\ UNCHANGED <<zMaxRestartAttempts, zPolls, zWebStarts, zStopPc>>
  /\ TimerUnchanged
  /\ IndexerUnchanged
  /\ ZoektOnly

\* _waitForHealthy resolved true: a fetch of the web port succeeded
HealthOk ==
  /\ zPolls > 0
  /\ zWeb
  /\ zPolls' = zPolls - 1
  /\ zAvailable' = TRUE
  /\ zRestartAttempts' = 0
  /\ zLog' = [zLog EXCEPT !.consec = 0]
  /\ UNCHANGED <<zWeb, zMaxRestartAttempts, zRestartTimer, zWebStarts, zStopPc>>
  /\ TimerUnchanged
  /\ IndexerUnchanged
  /\ ZoektOnly

\* _waitForHealthy resolved false after its 10 s
HealthTimeout ==
  /\ zPolls > 0
  /\ zPolls' = zPolls - 1
  /\ UNCHANGED <<zWeb, zAvailable, zRestartAttempts, zMaxRestartAttempts, zRestartTimer,
                 zWebStarts, zStopPc, zLog>>
  /\ TimerUnchanged
  /\ IndexerUnchanged
  /\ ZoektOnly

\* stop(), up to its first await.  A process sent SIGTERM or SIGKILL exits
\* later, through IndexExit or WebExit.
StopBegin ==
  /\ zStopPc = "no"
  /\ zTimer' = FALSE
  /\ zTimerLeft' = 0
  /\ zBurst' = BurstInit
  /\ zMaxRestartAttempts' = 0
  /\ IF zIndexProcess # 0 THEN zStopPc' = "indexWait" /\ UNCHANGED zAvailable
     ELSE IF zWeb THEN zStopPc' = "webWait" /\ UNCHANGED zAvailable
     ELSE zStopPc' = "done" /\ zAvailable' = FALSE
  /\ UNCHANGED <<zWeb, zRestartAttempts, zRestartTimer, zPolls, zWebStarts, zLog>>
  /\ IndexerUnchanged
  /\ ZoektOnly

\* stop() after the 1 s wait for the indexer
StopAfterIndexWait ==
  /\ zStopPc = "indexWait"
  /\ IF zWeb THEN zStopPc' = "webWait" /\ UNCHANGED zAvailable
     ELSE zStopPc' = "done" /\ zAvailable' = FALSE
  /\ UNCHANGED <<zWeb, zRestartAttempts, zMaxRestartAttempts, zRestartTimer, zPolls,
                 zWebStarts, zLog>>
  /\ TimerUnchanged
  /\ IndexerUnchanged
  /\ ZoektOnly

\* stop() after the 2 s wait for the web server
StopAfterWebWait ==
  /\ zStopPc = "webWait"
  /\ zStopPc' = "done"
  /\ zAvailable' = FALSE
  /\ UNCHANGED <<zWeb, zRestartAttempts, zMaxRestartAttempts, zRestartTimer, zPolls,
                 zWebStarts, zLog>>
  /\ TimerUnchanged
  /\ IndexerUnchanged
  /\ ZoektOnly

ZoektNext ==
  \/ RunIndexCall
  \/ RunIndexSpawn
  \/ \E p \in 1 .. MaxIndexProcs : IndexExit(p)
  \/ TriggerReindex
  \/ ReindexTimerFire
  \/ Tick
  \/ Start
  \/ RestartTimerFire
  \/ WebExit
  \/ HealthOk
  \/ HealthTimeout
  \/ StopBegin
  \/ StopAfterIndexWait
  \/ StopAfterWebWait

(***************************************************************************)
(* Part 3: trigram module                                                  *)
(***************************************************************************)

\* Bounds of the trigram model: lengths of the pattern and of the text.
MaxPatternLen == 4
MaxTextLen == 3

\* UTF-16 code units of the characters the module names
CharCode ==
  [nul |-> 0, lf |-> 10, cr |-> 13, dollar |-> 36, lparen |-> 40, rparen |-> 41,
   star |-> 42, plus |-> 43, dot |-> 46, colon |-> 58, question |-> 63,
   upperA |-> 65, upperZ |-> 90, lbracket |-> 91, backslash |-> 92,
   rbracket |-> 93, caret |-> 94, lowerA |-> 97, lowerB |-> 98, lowerZ |-> 122,
   lbrace |-> 123, pipe |-> 124, rbrace |-> 125]

Min(S) == CHOOSE x \in S : \A y \in S : x <= y

\* JavaScript's 32-bit integers.  A value is kept as its signed reading; its
\* low 31 bits and its sign bit are handled apart so that no intermediate
\* leaves the signed 32-bit range.
Low31(x) == IF x < 0 THEN (x + 2^30) + 2^30 ELSE x

FromBits(low, sign) == IF sign THEN (low - 2^30) - 2^30 ELSE low

RECURSIVE BitOr(_, _, _)
BitOr(x, y, n) ==
  IF n = 0 \/ (x = 0 /\ y = 0) THEN 0
  ELSE (IF x % 2 = 1 \/ y % 2 = 1 THEN 1 ELSE 0) + 2 * BitOr(x \div 2, y \div 2, n - 1)

\* x | y
Or32(x, y) == FromBits(BitOr(Low31(x), Low31(y), 31), x < 0 \/ y < 0)

\* c << 16 and c << 8 for a code unit c (0 .. 65535)
Shl16(c) == FromBits((c % 32768) * 65536, c >= 32768)

Shl8(c) == c * 256

EncodeTrigram(c1, c2, c3) == Or32(Or32(Shl16(c1), Shl8(c2)), c3)

\* String.prototype.toLowerCase on the characters of the model: A-Z map to
\* a-z, every other character of the model's alphabets is its own lower case
ToLowerCase(str) ==
  [i \in 1 .. Len(str) |->
     IF str[i] >= CharCode.upperA /\ str[i] <= CharCode.upperZ THEN str[i] + 32 ELSE str[i]]

Skipped(c) == c = CharCode.lf \/ c = CharCode.cr \/ c = CharCode.nul

ExtractTrigrams(content) ==
  LET lower == ToLowerCase(content)
      kept == {i \in 1 .. (Len(lower) - 2) :
                 ~Skipped(lower[i]) /\ ~Skipped(lower[i + 1]) /\ ~Skipped(lower[i + 2])}
  IN {Or32(Or32(Shl16(lower[i]), Shl8(lower[i + 1])), lower[i + 2]) : i \in kept}

\* a split that is never made
SplitNever(pattern) == <<pattern>>

\* the loop of splitTopLevelAlternation, from index i (1-based)
RECURSIVE SplitFrom(_, _, _, _, _, _)
SplitFrom(pattern, i, current, depth, inCharClass, parts) ==
  IF i > Len(pattern) THEN Append(parts, current)
  ELSE LET ch == pattern[i] IN
    IF ch = CharCode.backslash /\ i + 1 <= Len(pattern)
      THEN SplitFrom(pattern, i + 2, current \o <<ch, pattern[i + 1]>>, depth, inCharClass, parts)
    ELSE IF inCharClass
      THEN SplitFrom(pattern, i + 1, Append(current, ch), depth, ch # CharCode.rbracket, parts)
    ELSE IF ch = CharCode.lbracket
      THEN SplitFrom(pattern, i + 1, Append(current, ch), depth, TRUE, parts)
    ELSE IF ch = CharCode.lparen
      THEN SplitFrom(pattern, i + 1, Append(current, ch), depth + 1, inCharClass, parts)
    ELSE IF ch = CharCode.rparen
      THEN SplitFrom(pattern, i + 1, Append(current, ch), depth - 1, inCharClass, parts)
    ELSE IF ch = CharCode.pipe /\ depth = 0
      THEN SplitFrom(pattern, i + 1, <<>>, depth, inCharClass, Append(parts, current))
    ELSE SplitFrom(pattern, i + 1, Append(current, ch), depth, inCharClass, parts)

SplitTopLevelAlternation(pattern) == SplitFrom(pattern, 1, <<>>, 0, FALSE, <<>>)

FlushFragment(str, fragments) ==
  IF Len(str) >= 3 THEN Append(fragments, str) ELSE fragments

IsAlpha(ch) ==
  \/ ch >= CharCode.lowerA /\ ch <= CharCode.lowerZ
  \/ ch >= CharCode.upperA /\ ch <= CharCode.upperZ

\* `while (i < pattern.length && !stop(pattern[i])) i++`: the first index from
\* i on that is in stops, or the index past the end
SkipTo(pattern, i, stops) ==
  LET here == {j \in i .. Len(pattern) : j \in stops}
  IN IF here = {} THEN Max(i, Len(pattern) + 1) ELSE Min(here)

\* '.()[]{}*+?|^$'
EscapedLiterals ==
  {CharCode.dot, CharCode.lparen, CharCode.rparen, CharCode.lbracket, CharCode.rbracket,
   CharCode.lbrace, CharCode.rbrace, CharCode.star, CharCode.plus, CharCode.question,
   CharCode.pipe, CharCode.caret, CharCode.dollar}

\* '.+*?{^$'
Metacharacters ==
  {CharCode.dot, CharCode.plus, CharCode.star, CharCode.question, CharCode.lbrace,
   CharCode.caret, CharCode.dollar}

\* the loop of extractLiteralsFromBranch, from index i (1-based)
RECURSIVE BranchFrom(_, _, _, _)
BranchFrom(pattern, i, current, fragments) ==
  IF i > Len(pattern) THEN FlushFragment(current, fragments)
  ELSE LET ch == pattern[i]
           n == Len(pattern)
           At(c) == {j \in 1 .. n : pattern[j] = c}
       IN
    IF ch = CharCode.backslash /\ i + 1 <= n
      THEN IF pattern[i + 1] \in EscapedLiterals
             THEN BranchFrom(pattern, i + 2, Append(current, pattern[i + 1]), fragments)
             ELSE BranchFrom(pattern, i + 2, <<>>, FlushFragment(current, fragments))
    ELSE IF ch = CharCode.lbracket
      THEN LET i1 == i + 1
               i2 == IF i1 <= n /\ pattern[i1] = CharCode.caret THEN i1 + 1 ELSE i1
               i3 == IF i2 <= n /\ pattern[i2] = CharCode.rbracket THEN i2 + 1 ELSE i2
               i4 == SkipTo(pattern, i3, At(CharCode.rbracket))
           IN BranchFrom(pattern, i4 + 1, <<>>, FlushFragment(current, fragments))
    ELSE IF ch = CharCode.lparen \/ ch = CharCode.rparen
      THEN LET i1 == i + 1
               i2 == IF ch = CharCode.lparen /\ i1 <= n /\ pattern[i1] = CharCode.question
                       THEN LET j == SkipTo(pattern, i1 + 1,
                                       At(CharCode.rparen) \cup At(CharCode.colon)
                                         \cup {k \in 1 .. n : IsAlpha(pattern[k])})
                            IN IF j <= n /\ pattern[j] = CharCode.colon THEN j + 1 ELSE j
                       ELSE i1
           IN BranchFrom(pattern, i2, <<>>, FlushFragment(current, fragments))
    ELSE IF ch \in Metacharacters
      THEN LET i1 == i + 1
               i2 == IF ch = CharCode.lbrace
                       THEN LET j == SkipTo(pattern, i1, At(CharCode.rbrace))
                            IN IF j <= n THEN j + 1 ELSE j
                       ELSE i1
           IN BranchFrom(pattern, i2, <<>>, FlushFragment(current, fragments))
    ELSE BranchFrom(pattern, i + 1, Append(current, ch), fragments)

ExtractLiteralsFromBranch(pattern) == BranchFrom(pattern, 1, <<>>, <<>>)

ExtractLiteralsFromRegex(pattern) ==
  IF Len(SplitTopLevelAlternation(pattern)) > 1 THEN <<>>
  ELSE ExtractLiteralsFromBranch(pattern)

\* the trigrams of all the fragments of a list
TrigramsOf(literals) ==
  UNION {ExtractTrigrams(literals[k]) : k \in 1 .. Len(literals)}

PatternToTrigrams(pattern, isRegex) ==
  IF ~isRegex THEN ExtractTrigrams(pattern)
  ELSE LET alternatives == SplitTopLevelAlternation(pattern) IN
    IF Len(alternatives) > 1
      THEN LET branchTrigramSets ==
                 [k \in 1 .. Len(alternatives) |->
                    TrigramsOf(ExtractLiteralsFromBranch(alternatives[k]))]
           IN IF \E k \in 1 .. Len(alternatives) : branchTrigramSets[k] = {} THEN {}
              ELSE {t \in branchTrigramSets[1] :
                      \A k \in 2 .. Len(alternatives) : t \in branchTrigramSets[k]}
      ELSE TrigramsOf(ExtractLiteralsFromRegex(pattern))

\* --- the search the trigrams are a filter for: new RegExp(pattern, flags)
\* --- and regex.exec(line) on each line of the content, for patterns built
\* --- from literal characters, `.`, the quantifiers `?` and `??`, and `|`

\* content.split('\n')
RECURSIVE SplitLines(_, _, _)
SplitLines(content, i, current) ==
  IF i > Len(content) THEN <<current>>
  ELSE IF content[i] = CharCode.lf THEN <<current>> \o SplitLines(content, i + 1, <<>>)
  ELSE SplitLines(content, i + 1, Append(current, content[i]))

\* one alternative as a list of atoms, each optional or not; ok is FALSE where
\* the RegExp constructor throws (a quantifier with nothing to repeat)
RECURSIVE ParseBranch(_, _, _)
ParseBranch(branch, i, items) ==
  IF i > Len(branch) THEN [ok |-> TRUE, items |-> items]
  ELSE IF branch[i] = CharCode.question THEN [ok |-> FALSE, items |-> items]
  ELSE LET opt == i + 1 <= Len(branch) /\ branch[i + 1] = CharCode.question
           lazy == opt /\ i + 2 <= Len(branch) /\ branch[i + 2] = CharCode.question
           next == IF lazy THEN i + 3 ELSE IF opt THEN i + 2 ELSE i + 1
       IN ParseBranch(branch, next, Append(items, [atom |-> branch[i], opt |-> opt]))

\* one atom against one character of a line
AtomMatches(atom, c, ignoreCase) ==
  IF atom = CharCode.dot THEN c # CharCode.lf /\ c # CharCode.cr
  ELSE IF ignoreCase THEN ToLowerCase(<<atom>>) = ToLowerCase(<<c>>)
  ELSE atom = c

\* the atoms from the k-th on match at position pos of the line
RECURSIVE MatchHere(_, _, _, _, _)
MatchHere(items, k, line, pos, ignoreCase) ==
  IF k > Len(items) THEN TRUE
  ELSE \/ items[k].opt /\ MatchHere(items, k + 1, line, pos, ignoreCase)
       \/ /\ pos <= Len(line)
          /\ AtomMatches(items[k].atom, line[pos], ignoreCase)
          /\ MatchHere(items, k + 1, line, pos + 1, ignoreCase)

\* regex.exec(line) finds a match
RegexExec(pattern, ignoreCase, line) ==
  LET alternatives == SplitTopLevelAlternation(pattern)
      parsed == [k \in 1 .. Len(alternatives) |-> ParseBranch(alternatives[k], 1, <<>>)]
  IN /\ \A k \in 1 .. Len(alternatives) : parsed[k].ok
     /\ \E k \in 1 .. Len(alternatives) : \E pos \in 1 .. (Len(line) + 1) :
          MatchHere(parsed[k].items, 1, line, pos, ignoreCase)

\* the worker reports at least one matching line of the content
Matches(pattern, ignoreCase, content) ==
  LET lines == SplitLines(content, 1, <<>>)
  IN \E i \in 1 .. Len(lines) : RegexExec(pattern, ignoreCase, lines[i])

\* --- the inputs and the calls

PatternChars ==
  {CharCode.lowerA, CharCode.lowerB, CharCode.question, CharCode.pipe, CharCode.dot}

TextChars == {CharCode.lowerA, CharCode.lowerB, CharCode.upperA, CharCode.lf}

SeqsUpTo(S, n) == UNION {[1 .. k -> S] : k \in 0 .. n}

\* Bound: the branches of an alternation.
MaxBranches == 3

\* branches without a top-level `|`:  aab  aaba  baab  ab  (a|b)aab  [|]aab
\* \|aab  and the empty branch
AltBranches ==
  LET a == CharCode.lowerA
      b == CharCode.lowerB
  IN {<<a, a, b>>, <<a, a, b, a>>, <<b, a, a, b>>, <<a, b>>,
      <<CharCode.lparen, a, CharCode.pipe, b, CharCode.rparen, a, a, b>>,
      <<CharCode.lbracket, CharCode.pipe, CharCode.rbracket, a, a, b>>,
      <<CharCode.backslash, CharCode.pipe, a, a, b>>,
      <<>>}

\* the alternation branches[1]|branches[2]|...
RECURSIVE JoinBranches(_)
JoinBranches(branches) ==
  IF Len(branches) = 1 THEN branches[1]
  ELSE branches[1] \o <<CharCode.pipe>> \o JoinBranches(Tail(branches))

BranchLists == UNION {[1 .. k -> AltBranches] : k \in 2 .. MaxBranches}

\* code units above 255: U+4E2D and U+AC00, both their own lower case
WideTextChars == {CharCode.lowerA, CharCode.lf, 20013, 44032}

TrigramIdle ==
  /\ tgPattern = <<>>
  /\ tgText = <<>>
  /\ tgIgnoreCase = FALSE
  /\ tgIndexed = {}
  /\ tgResult = {}
  /\ tgPc = "idle"

TrigramInit ==
  /\ tgPattern \in SeqsUpTo(PatternChars, MaxPatternLen)
  /\ tgText \in SeqsUpTo(TextChars, MaxTextLen)
  /\ tgIgnoreCase \in BOOLEAN
  /\ tgIndexed = {}
  /\ tgResult = {}
  /\ tgPc = "input"

\* an alternation held against no text, or a short pattern and a text with
\* characters outside Latin-1
TrigramCasesInit ==
  /\ \/ /\ tgPattern \in {JoinBranches(branches) : branches \in BranchLists}
        /\ tgText = <<>>
     \/ /\ tgPattern \in SeqsUpTo(PatternChars, 1)
        /\ tgText \in SeqsUpTo(WideTextChars, MaxTextLen)
  /\ tgIgnoreCase \in BOOLEAN
  /\ tgIndexed = {}
  /\ tgResult = {}
  /\ tgPc = "input"

\* the indexer extracts the trigrams of the file's content
IndexFile ==
  /\ tgPc = "input"
  /\ tgIndexed' = ExtractTrigrams(tgText)
  /\ tgPc' = "indexed"
  /\ UNCHANGED <<tgPattern, tgText, tgIgnoreCase, tgResult>>
  /\ TrigramOnly

\* a regular-expression query asks for its required trigrams
QueryTrigrams ==
  /\ tgPc = "indexed"
  /\ tgResult' = PatternToTrigrams(tgPattern, TRUE)
  /\ tgPc' = "done"
  /\ UNCHANGED <<tgPattern, tgText, tgIgnoreCase, tgIndexed>>
  /\ TrigramOnly

TrigramNext ==
  \/ IndexFile
  \/ QueryTrigrams

(***************************************************************************)
(* Part 4: ingest service, durable store, memory index, mirror             *)
(***************************************************************************)

\* The ingest endpoint, the store and the memory index are not among the
\* sources (only contentHash and callers of /internal/ingest are); this part
\* follows the specification's sections on the durable store, the mirror
\* maintainer, the memory index and the ingest service.  Where those leave a
\* choice open the model takes: files before deletes, each list in order; a
\* row keeps its id when its file is updated; a new row gets the largest id
\* plus one; ingestDiff receives the ids the transaction touched and the
\* records of those files as committed.

\* Bounds of the ingest model: batches accepted, files and deletes per batch.
MaxBatches == 3
MaxFiles == 1
MaxDeletes == 1

\* contentHash: a digest of the content alone (the first 8 bytes of its MD5);
\* the model's digest is a weighted sum of the code units
RECURSIVE ContentHash(_)
ContentHash(content) ==
  IF content = <<>> THEN 7
  ELSE (31 * ContentHash(SubSeq(content, 1, Len(content) - 1))
          + content[Len(content)]) % 65521

\* Paths are lists of segments.
StartsWith(path, prefix) ==
  Len(prefix) <= Len(path) /\ SubSeq(path, 1, Len(prefix)) = prefix

Paths == {<<"d", "x">>, <<"d", "y">>}

Contents ==
  {<<CharCode.lowerA, CharCode.lowerA, CharCode.lowerB, CharCode.lowerB>>,
   <<CharCode.lowerA, CharCode.lowerB, CharCode.lowerB, CharCode.lowerA>>}

TypeSets == {{"T"}, {"T", "U"}}

FileItems ==
  [kind : {"file"}, path : Paths, content : Contents, types : TypeSets]

DeleteItems ==
  {[kind |-> "delete", path |-> <<"d", "x">>, prefix |-> FALSE],
   [kind |-> "delete", path |-> <<"d">>, prefix |-> TRUE]}

\* request shape { files: [...], deletes: [...] }
Batches ==
  [files : SeqsUpTo(FileItems, MaxFiles), deletes : SeqsUpTo(DeleteItems, MaxDeletes)]

\* files are applied first, then deletes, each list in order
Items(batch) == batch.files \o batch.deletes

Put(f, k, v) == [x \in DOMAIN f \cup {k} |-> IF x = k THEN v ELSE f[x]]

Drop(f, K) == [x \in DOMAIN f \ K |-> f[x]]

EmptyMap == [x \in {} |-> {}]

EmptyStore == [files |-> EmptyMap, postings |-> {}]

\* a new row's id: one more than the largest id in the table
NextFileId(files) ==
  IF DOMAIN files = {} THEN 1
  ELSE 1 + (CHOOSE m \in {files[p].id : p \in DOMAIN files} :
              \A p \in DOMAIN files : files[p].id <= m)

\* the trigrams whose posting list holds the file id
PostedFor(postings, id) == {t[1] : t \in {q \in postings : q[2] = id}}

\* upsertFile as delete-then-insert: the row is always written under a new id
UpsertFileFreshId(S, item) ==
  LET isNew == item.path \notin DOMAIN S.files
      oldId == IF isNew THEN 0 ELSE S.files[item.path].id
      id == NextFileId(S.files)
      row == [id |-> id, hash |-> ContentHash(item.content), types |-> item.types,
              content |-> item.content]
  IN [files |-> Put(S.files, item.path, row),
      postings |-> {q \in S.postings : q[2] # oldId}
                     \cup {<<t, id>> : t \in ExtractTrigrams(item.content)}]

\* upsertFile, steps 1 to 4 of batch processing
UpsertFile(S, item) ==
  LET hash == ContentHash(item.content)
      isNew == item.path \notin DOMAIN S.files
      id == IF isNew THEN NextFileId(S.files) ELSE S.files[item.path].id
      same == ~isNew /\ S.files[item.path].hash = hash
      old == PostedFor(S.postings, id)
      new == ExtractTrigrams(item.content)
      row == [id |-> id, hash |-> hash, types |-> item.types,
              content |-> IF same THEN S.files[item.path].content ELSE item.content]
  IN [files |-> Put(S.files, item.path, row),
      postings |-> IF same THEN S.postings
                   ELSE (S.postings \ {<<t, id>> : t \in old \ new})
                          \cup {<<t, id>> : t \in new \ old}]

\* the paths a delete names that the store holds
DeleteTargets(S, item) ==
  {p \in DOMAIN S.files : IF item.prefix THEN StartsWith(p, item.path) ELSE p = item.path}

\* deleteByPath / deleteByPrefix: the rows go, and their postings with them
DeleteFiles(S, item) ==
  LET gone == DeleteTargets(S, item)
      ids == {S.files[p].id : p \in gone}
  IN [files |-> Drop(S.files, gone),
      postings |-> {q \in S.postings : q[2] \notin ids}]

\* --- memory index

\* the key of a type name in byExactName and in byLowerName
ExactName == [T |-> "T", U |-> "U"]

LowerName == [T |-> "t", U |-> "u"]

\* the type records of the store
TypeRecords(files) ==
  UNION {{[file |-> files[p].id, name |-> n] : n \in files[p].types} : p \in DOMAIN files}

\* a map from each key in use to the records under it
IndexBy(recs, key) ==
  [k \in {key[r.name] : r \in recs} |-> {r \in recs : key[r.name] = k}]

\* startup load from the store
LoadMemory(S) ==
  [byExactName |-> IndexBy(TypeRecords(S.files), ExactName),
   byLowerName |-> IndexBy(TypeRecords(S.files), LowerName)]

\* removal that leaves emptied keys in the map
RemoveFromKeepKeys(map, ids) ==
  [k \in DOMAIN map |-> {r \in map[k] : r.file \notin ids}]

\* one structure without the records of the removed files; a key left with no
\* record is removed
RemoveFrom(map, ids) ==
  LET kept == [k \in DOMAIN map |-> {r \in map[k] : r.file \notin ids}]
  IN [k \in {x \in DOMAIN map : kept[x] # {}} |-> kept[k]]

InsertInto(map, recs, key) ==
  [k \in DOMAIN map \cup {key[r.name] : r \in recs} |->
     (IF k \in DOMAIN map THEN map[k] ELSE {}) \cup {r \in recs : key[r.name] = k}]

\* ingestDiff, first half: remove the records owned by the removed files
RemoveOwned(M, ids) ==
  [byExactName |-> RemoveFrom(M.byExactName, ids),
   byLowerName |-> RemoveFrom(M.byLowerName, ids)]

\* ingestDiff, second half: insert the added records
InsertRecords(M, recs) ==
  [byExactName |-> InsertInto(M.byExactName, recs, ExactName),
   byLowerName |-> InsertInto(M.byLowerName, recs, LowerName)]

\* a reader handed the snapshot under construction
ReadWorkingCopy(current, building) == building

\* the snapshot a reader is handed: the current one, never the one being built
ReadSnapshot(current, building) == current

\* --- mirror

RECURSIVE ApplyMirrorOps(_, _)
ApplyMirrorOps(mirror, ops) ==
  IF ops = <<>> THEN mirror
  ELSE LET op == Head(ops)
       IN ApplyMirrorOps(
            IF op.op = "update" THEN Put(mirror, op.path, op.content)
            ELSE Drop(mirror, op.paths),
            Tail(ops))

\* the mirror work one item queues: updateFile for a file whose content is
\* stored, deleteFile for every file a delete removes
MirrorOpsOf(S, item) ==
  IF item.kind = "file"
    THEN IF item.path \in DOMAIN S.files /\ S.files[item.path].hash = ContentHash(item.content)
           THEN <<>>
           ELSE <<[op |-> "update", path |-> item.path, content |-> item.content]>>
    ELSE <<[op |-> "delete", paths |-> DeleteTargets(S, item)]>>

\* the ids of the files one item patches or removes
TouchedBy(S, item) ==
  IF item.kind = "file"
    THEN {IF item.path \in DOMAIN S.files THEN S.files[item.path].id ELSE NextFileId(S.files)}
    ELSE {S.files[p].id : p \in DeleteTargets(S, item)}

ApplyItem(S, item) ==
  IF item.kind = "file" THEN UpsertFile(S, item) ELSE DeleteFiles(S, item)

\* a failed transaction whose writes stay
RollbackKeepsWrites(committed, working) == working

\* a rollback leaves the store as it was before the transaction
Rollback(committed, working) == committed

\* --- the ingest service

Triple == [store |-> igStore, memory |-> igMemory, mirror |-> igMirror]

IngestInit ==
  /\ igStore = EmptyStore
  /\ igTx = EmptyStore
  /\ igMemory = LoadMemory(EmptyStore)
  /\ igBuilding = LoadMemory(EmptyStore)
  /\ igMirror = EmptyMap
  /\ igBatch = [files |-> <<>>, deletes |-> <<>>]
  /\ igPos = 1
  /\ igTouched = {}
  /\ igMirrorOps = <<>>
  /\ igPc = "idle"
  /\ igCount = 0
  /\ igOutcome = "none"
  /\ igBefore = [store |-> EmptyStore, memory |-> LoadMemory(EmptyStore), mirror |-> EmptyMap]
  /\ igReplay = FALSE
  /\ igRead = [seen |-> LoadMemory(EmptyStore), whole |-> {LoadMemory(EmptyStore)}, at |-> "idle"]

\* a batch is accepted and its transaction opened (one writer at a time)
IngestBegin(batch) ==
  /\ igPc = "idle"
  /\ igCount < MaxBatches
  /\ igCount' = igCount + 1
  /\ igBatch' = batch
  /\ igPos' = 1
  /\ igTx' = igStore
  /\ igTouched' = {}
  /\ igMirrorOps' = <<>>
  /\ igBefore' = Triple
  /\ igReplay' = (igOutcome = "done" /\ batch = igBatch)
  /\ igOutcome' = "running"
  /\ igPc' = "tx"
  /\ UNCHANGED <<igStore, igMemory, igBuilding, igMirror, igRead>>
  /\ IngestOnly

\* the next file or delete of the batch, inside the transaction
IngestStep ==
  /\ igPc = "tx"
  /\ igPos <= Len(Items(igBatch))
  /\ LET item == Items(igBatch)[igPos]
     IN /\ igTx' = ApplyItem(igTx, item)
        /\ igTouched' = igTouched \cup TouchedBy(igTx, item)
        /\ igMirrorOps' = igMirrorOps \o MirrorOpsOf(igTx, item)
  /\ igPos' = igPos + 1
  /\ UNCHANGED <<igStore, igMemory, igBuilding, igMirror, igBatch, igPc, igCount,
                 igOutcome, igBefore, igReplay, igRead>>
  /\ IngestOnly

\* an I/O error inside the transaction: roll back, StoreUnavailable
IngestFail ==
  /\ igPc = "tx"
  /\ igStore' = Rollback(igStore, igTx)
  /\ igTx' = igStore'
  /\ igTouched' = {}
  /\ igMirrorOps' = <<>>
  /\ igOutcome' = "rolledback"
  /\ igPc' = "idle"
  /\ UNCHANGED <<igMemory, igBuilding, igMirror, igBatch, igPos, igCount, igBefore,
                 igReplay, igRead>>
  /\ IngestOnly

\* every item applied: the transaction commits
IngestCommit ==
  /\ igPc = "tx"
  /\ igPos > Len(Items(igBatch))
  /\ igStore' = igTx
  /\ igPc' = "committed"
  /\ UNCHANGED <<igTx, igMemory, igBuilding, igMirror, igBatch, igPos, igTouched,
                 igMirrorOps, igCount, igOutcome, igBefore, igReplay, igRead>>
  /\ IngestOnly

\* ingestDiff starts a new snapshot: the current one less the removed files
PatchRemove ==
  /\ igPc = "committed"
  /\ igBuilding' = RemoveOwned(igMemory, igTouched)
  /\ igPc' = "patching"
  /\ UNCHANGED <<igStore, igTx, igMemory, igMirror, igBatch, igPos, igTouched,
                 igMirrorOps, igCount, igOutcome, igBefore, igReplay, igRead>>
  /\ IngestOnly

\* ingestDiff inserts the patched files' records and swaps the reference
PatchPublish ==
  /\ igPc = "patching"
  /\ LET added == {r \in TypeRecords(igStore.files) : r.file \in igTouched}
     IN igMemory' = InsertRecords(igBuilding, added)
  /\ igBuilding' = igMemory'
  /\ igPc' = "published"
  /\ UNCHANGED <<igStore, igTx, igMirror, igBatch, igPos, igTouched, igMirrorOps,
                 igCount, igOutcome, igBefore, igReplay, igRead>>
  /\ IngestOnly

\* the mirror maintainer does the queued work; the batch is complete
MirrorSync ==
  /\ igPc = "published"
  /\ igMirror' = ApplyMirrorOps(igMirror, igMirrorOps)
  /\ igMirrorOps' = <<>>
  /\ igTouched' = {}
  /\ igOutcome' = "done"
  /\ igPc' = "idle"
  /\ UNCHANGED <<igStore, igTx, igMemory, igBuilding, igBatch, igPos, igCount,
                 igBefore, igReplay, igRead>>
  /\ IngestOnly

\* a query reads the memory index; `whole` notes the snapshots that stand for
\* a whole number of committed batches at that moment
ReadMemory ==
  /\ igRead' = [seen |-> ReadSnapshot(igMemory, igBuilding),
                whole |-> {LoadMemory(igStore), LoadMemory(igBefore.store)},
                at |-> igPc]
  /\ UNCHANGED <<igStore, igTx, igMemory, igBuilding, igMirror, igBatch, igPos,
                 igTouched, igMirrorOps, igPc, igCount, igOutcome, igBefore, igReplay>>
  /\ IngestOnly

IngestNext ==
  \/ \E batch \in Batches : IngestBegin(batch)
  \/ IngestStep
  \/ IngestFail
  \/ IngestCommit
  \/ PatchRemove
  \/ PatchPublish
  \/ MirrorSync
  \/ ReadMemory

(***************************************************************************)
(* Part 5: GET /grep with the grep worker, and GET /health                  *)
(***************************************************************************)

\* Bounds of the grep model: files to search, matching lines per file, and
\* the largest maxResults a request asks for.
MaxGrepFiles == 2
MaxHits == 2
MaxMaxResults == 2

NoMsg == [type |-> "none"]

\* the inner loop of the scan over one file's matching lines: every matching
\* line met counts in totalMatches and is pushed while results is short of
\* maxResults; the loop leaves once results has reached maxResults
RECURSIVE ScanLines(_, _, _, _)
ScanLines(hits, results, total, maxResults) ==
  IF hits = 0 THEN [results |-> results, total |-> total]
  ELSE LET r == IF results < maxResults THEN results + 1 ELSE results
       IN IF r >= maxResults THEN [results |-> r, total |-> total + 1]
          ELSE ScanLines(hits - 1, r, total + 1, maxResults)

\* a terminate() that leaves the thread running
TerminateNot(state) == state

\* worker.terminate()
Terminate(state) == IF state = "none" THEN state ELSE "terminated"

\* worker.postMessage('abort'): the message waits in the worker's port until
\* the worker's event loop takes it; a stopped worker receives nothing
PostAbort(state, inbox) ==
  IF state \in {"scanning", "posted"} THEN inbox + 1 ELSE inbox

\* the query parameters of /grep the model follows
NoRequest == [pattern |-> "", project |-> "", mr |-> [present |-> FALSE, text |-> <<>>],
              cl |-> [present |-> FALSE, text |-> <<>>]]

GrepInit ==
  /\ gPc = "idle"
  /\ gFiles = <<>>
  /\ gMaxResults = 0
  /\ gTimer = FALSE
  /\ gResponded = FALSE
  /\ gResponses = <<>>
  /\ gClosed = FALSE
  /\ gMsg = NoMsg
  /\ gErrEvent = FALSE
  /\ wState = "none"
  /\ wIdx = 0
  /\ wResults = 0
  /\ wTotalMatches = 0
  /\ wFilesSearched = 0
  /\ wAborted = FALSE
  /\ wInbox = 0
  /\ gLog = [aborts |-> 0, expired |-> FALSE, expiredAt |-> 0, closedEarly |-> FALSE,
             req |-> NoRequest, projects |-> {}, contextLines |-> 0]

\* app.get('/grep'): validation, then the worker and its timeout
\* parseInt gave NaN
NaN == -1

\* maxResults and contextLines when the parameter gives none
DefaultMaxResults == 50
DefaultContextLines == 2

\* a query parameter: absent, or present with its text (code units)
Absent == [present |-> FALSE, text |-> <<>>]
Param(text) == [present |-> TRUE, text |-> text]

\* the decimal digits `0`..`9` are the code units 48..57
IsDigit(c) == c >= 48 /\ c <= 57

\* parseInt(text, 10) on a text without sign or blanks: the value of the
\* leading digits, NaN when there is none
RECURSIVE ParseDigits(_, _, _)
ParseDigits(text, i, acc) ==
  IF i > Len(text) \/ ~IsDigit(text[i]) THEN acc
  ELSE ParseDigits(text, i + 1, acc * 10 + (text[i] - 48))

ParseInt(param) ==
  IF ~param.present \/ param.text = <<>> \/ ~IsDigit(param.text[1]) THEN NaN
  ELSE ParseDigits(param.text, 1, 0)

\* a fallback taken only for NaN
OrDefaultNaNOnly(value, fallback) == IF value = NaN THEN fallback ELSE value

\* value || fallback: NaN and 0 are falsy
OrDefault(value, fallback) == IF value = NaN \/ value = 0 THEN fallback ELSE value

\* new RegExp(pattern, flags) does not throw
Compiles(pattern) == pattern # "[invalid"

\* a worker is started although the request is refused
WorkerUnlessNoFiles(refusal) == IF refusal = "project" THEN "none" ELSE "scanning"

\* the worker's state after the handler's validation
WorkerAfterValidation(refusal) == IF refusal = "" THEN "scanning" ELSE "none"

\* what makes the handler answer 400, "" when nothing does
Refusal(req, db) ==
  IF req.pattern = "" THEN "pattern"
  ELSE IF ~Compiles(req.pattern) THEN "regex"
  ELSE IF req.project # "" /\ SelectSeq(db, LAMBDA f : f.project = req.project) = <<>>
    THEN "project"
  ELSE ""

\* app.get('/grep') up to the start of the worker; db is database.getAllFiles()
GrepRequest(req, db) ==
  /\ gPc = "idle"
  /\ LET refusal == Refusal(req, db)
         files == IF req.project = "" THEN db
                  ELSE SelectSeq(db, LAMBDA f : f.project = req.project)
         worker == WorkerAfterValidation(refusal)
     IN /\ gLog' = [gLog EXCEPT !.req = req,
                                !.projects = {db[i].project : i \in 1 .. Len(db)},
                                !.contextLines =
                                   IF req.pattern = "" THEN 0
                                   ELSE OrDefault(ParseInt(req.cl), DefaultContextLines)]
        /\ wState' = worker
        /\ gTimer' = (worker # "none")
        /\ IF refusal # ""
             THEN /\ gPc' = "refused"
                  /\ gResponses' = Append(gResponses, [status |-> 400])
                  /\ UNCHANGED <<gFiles, gMaxResults>>
             ELSE /\ gPc' = "serving"
                  /\ gFiles' = [i \in 1 .. Len(files) |-> files[i].hits]
                  /\ gMaxResults' = OrDefault(ParseInt(req.mr), DefaultMaxResults)
                  /\ UNCHANGED gResponses
  /\ UNCHANGED <<gResponded, gClosed, gMsg, gErrEvent, wIdx, wResults, wTotalMatches,
                 wFilesSearched, wAborted, wInbox>>
  /\ GrepOnly

\* the worker's scan loop takes the next file (the loop is synchronous: the
\* worker's event loop, and with it the 'message' listener that sets
\* `aborted`, runs only when the script has run to its end)
WorkerScanFile ==
  /\ wState = "scanning"
  /\ wIdx < Len(gFiles)
  /\ ~(wAborted \/ wResults >= gMaxResults)
  /\ LET after == ScanLines(gFiles[wIdx + 1], wResults, wTotalMatches, gMaxResults)
     IN /\ wResults' = after.results
        /\ wTotalMatches' = after.total
  /\ wFilesSearched' = wFilesSearched + 1
  /\ wIdx' = wIdx + 1
  /\ UNCHANGED <<gPc, gFiles, gMaxResults, gTimer, gResponded, gResponses, gClosed,
                 gMsg, gErrEvent, wState, wAborted, wInbox, gLog>>
  /\ GrepOnly

\* the loop ends (no file left, or the break) and the worker posts 'complete'
WorkerPost ==
  /\ wState = "scanning"
  /\ wIdx >= Len(gFiles) \/ wAborted \/ wResults >= gMaxResults
  /\ gMsg' = [type |-> "complete", results |-> wResults, totalMatches |-> wTotalMatches,
              filesSearched |-> wFilesSearched, aborted |-> wAborted]
  /\ wState' = "posted"
  /\ UNCHANGED <<gPc, gFiles, gMaxResults, gTimer, gResponded, gResponses, gClosed,
                 gErrEvent, wIdx, wResults, wTotalMatches, wFilesSearched, wAborted,
                 wInbox, gLog>>
  /\ GrepOnly

\* parentPort.on('message'): runs once the script has ended
WorkerOnMessage ==
  /\ wState = "posted"
  /\ wInbox > 0
  /\ wInbox' = wInbox - 1
  /\ wAborted' = TRUE
  /\ UNCHANGED <<gPc, gFiles, gMaxResults, gTimer, gResponded, gResponses, gClosed,
                 gMsg, gErrEvent, wState, wIdx, wResults, wTotalMatches,
                 wFilesSearched, gLog>>
  /\ GrepOnly

\* an uncaught exception in the worker: the thread ends, 'error' is emitted
WorkerThrow ==
  /\ wState = "scanning"
  /\ wState' = "failed"
  /\ gErrEvent' = TRUE
  /\ wInbox' = 0
  /\ UNCHANGED <<gPc, gFiles, gMaxResults, gTimer, gResponded, gResponses, gClosed,
                 gMsg, wIdx, wResults, wTotalMatches, wFilesSearched, wAborted, gLog>>
  /\ GrepOnly

\* the GREP_TIMEOUT_MS timer fires
GrepTimeout ==
  /\ gTimer
  /\ gTimer' = FALSE
  /\ wInbox' = PostAbort(wState, wInbox)
  /\ gLog' = [gLog EXCEPT !.aborts = @ + 1,
                          !.expired = (wState = "scanning" /\ wIdx < Len(gFiles)
                                         /\ wResults < gMaxResults),
                          !.expiredAt = wFilesSearched]
  /\ UNCHANGED <<gPc, gFiles, gMaxResults, gResponded, gResponses, gClosed, gMsg,
                 gErrEvent, wState, wIdx, wResults, wTotalMatches, wFilesSearched,
                 wAborted>>
  /\ GrepOnly

\* res.on('close')
GrepClose ==
  /\ gPc = "serving"
  /\ ~gClosed
  /\ gClosed' = TRUE
  /\ IF ~gResponded
       THEN /\ gTimer' = FALSE
            /\ wState' = Terminate(wState)
            /\ wInbox' = 0
            /\ gLog' = [gLog EXCEPT !.aborts = @ + 1, !.closedEarly = TRUE]
       ELSE UNCHANGED <<gTimer, wState, wInbox, gLog>>
  /\ UNCHANGED <<gPc, gFiles, gMaxResults, gResponded, gResponses, gMsg, gErrEvent,
                 wIdx, wResults, wTotalMatches, wFilesSearched, wAborted>>
  /\ GrepOnly

\* worker.on('message') with the 'complete' message
GrepComplete ==
  /\ gMsg.type = "complete"
  /\ gTimer' = FALSE
  /\ gResponded' = TRUE
  /\ gResponses' = Append(gResponses,
       [status |-> 200, results |-> gMsg.results, totalMatches |-> gMsg.totalMatches,
        truncated |-> gMsg.results < gMsg.totalMatches, timedOut |-> gMsg.aborted,
        filesSearched |-> gMsg.filesSearched, afterClose |-> gClosed])
  /\ wState' = Terminate(wState)
  /\ wInbox' = 0
  /\ gMsg' = NoMsg
  /\ UNCHANGED <<gPc, gFiles, gMaxResults, gClosed, gErrEvent, wIdx, wResults,
                 wTotalMatches, wFilesSearched, wAborted, gLog>>
  /\ GrepOnly

\* a message posted by a worker that was terminated before the handler took
\* it may be discarded with the thread
GrepMessageLost ==
  /\ gMsg.type = "complete"
  /\ wState = "terminated"
  /\ gMsg' = NoMsg
  /\ UNCHANGED <<gPc, gFiles, gMaxResults, gTimer, gResponded, gResponses, gClosed,
                 gErrEvent, wState, wIdx, wResults, wTotalMatches, wFilesSearched,
                 wAborted, wInbox, gLog>>
  /\ GrepOnly

\* worker.on('error')
GrepWorkerError ==
  /\ gErrEvent
  /\ gErrEvent' = FALSE
  /\ gTimer' = FALSE
  /\ IF ~gResponded
       THEN /\ gResponded' = TRUE
            /\ gResponses' = Append(gResponses, [status |-> 500, afterClose |-> gClosed])
       ELSE UNCHANGED <<gResponded, gResponses>>
  /\ wState' = Terminate(wState)
  /\ UNCHANGED <<gPc, gFiles, gMaxResults, gClosed, gMsg, wIdx, wResults,
                 wTotalMatches, wFilesSearched, wAborted, wInbox, gLog>>
  /\ GrepOnly

\* --- GET /health

\* Bound: /health requests.
MaxHealth == 2

\* a handler that answered only after the grep worker in progress
HealthAwaitsGrep == {"grep"}

\* what the /health handler waits for before res.json: nothing, it reads
\* process.memoryUsage() and process.uptime() and answers
HealthAwaits == {}

HealthInit ==
  /\ hRequests = 0
  /\ hResponses = 0
  /\ hDuringScan = FALSE

\* app.get('/health')
Health ==
  /\ hRequests < MaxHealth
  /\ hRequests' = hRequests + 1
  /\ hResponses' =
       IF "grep" \in HealthAwaits /\ wState \in {"scanning", "posted"}
         THEN hResponses
         ELSE hResponses + 1
  /\ hDuringScan' = (hDuringScan \/ (wState = "scanning" /\ gPc = "serving"))
  /\ UNCHANGED <<poolVars, zoektVars, trigramVars, ingestVars, grepVars, scoringVars,
                 restVars>>

\* maxResults and contextLines as sent: absent, or the decimal text of a
\* number (one digit)
NumberParams == [mr : 0 .. MaxMaxResults, cl : {0, 1}]

GrepRequests ==
  {[pattern |-> pattern, project |-> project, mr |-> Absent, cl |-> Absent] :
     pattern \in {"", "[invalid", "test"}, project \in {"", "P", "X"}}
  \cup
  {[pattern |-> "test", project |-> project,
    mr |-> Param(<<48 + n.mr>>), cl |-> Param(<<48 + n.cl>>)] :
     project \in {"", "P"}, n \in NumberParams}

\* database.getAllFiles(): each file with its project and the number of
\* lines the pattern matches in it
GrepDatabases ==
  SeqsUpTo([project : {"P", "Q"}, hits : 0 .. MaxHits], MaxGrepFiles)

GrepNext ==
  \/ \E req \in GrepRequests, db \in GrepDatabases : GrepRequest(req, db)
  \/ WorkerScanFile
  \/ WorkerPost
  \/ WorkerOnMessage
  \/ WorkerThrow
  \/ GrepTimeout
  \/ GrepClose
  \/ GrepComplete
  \/ GrepMessageLost
  \/ GrepWorkerError
  \/ Health

(***************************************************************************)
(* Part 6: type scoring and deduplication (service/scoring.js)             *)
(***************************************************************************)

\* A path is kept as what scoreEntry and dedupTypes read of it: its suffix,
\* the directory names it contains and its length.  Scores are in
\* thousandths, so that 0.5, 1.5 and 0.004 per character are integers.

\* Bound: the records given to dedupTypes.
MaxRecords == 3

NoPath == [ext |-> "", segs |-> {}, len |-> 0]

ScorePaths ==
  [ext : {"h", "hpp", "cpp"}, segs : {{}, {"Runtime", "Public"}}, len : {20}]

TypeInputs ==
  [name : {"A", "B"}, kind : {"class"}, path : ScorePaths, parent : BOOLEAN,
   implementationPath : {NoPath}]

\* scoreEntry(r), times 1000
ScoreEntry(r) ==
  LET p == r.path
  IN (IF r.parent THEN 10000 ELSE 0)
     + (IF p.ext = "h" THEN 5000 ELSE 0)
     + (IF "Runtime" \in p.segs THEN 2000
        ELSE IF "Developer" \in p.segs THEN 1000 ELSE 0)
     + (IF "Public" \in p.segs \/ "Classes" \in p.segs THEN 1500
        ELSE IF "Private" \in p.segs THEN 500 ELSE 0)
     + (IF 500 - p.len * 4 > 0 THEN 500 - p.len * 4 ELSE 0)

\* `${r.name}:${r.kind}`
TypeKey(r) == <<r.name, r.kind>>

\* the loop over results; best is the Map's values in insertion order
RECURSIVE DedupFrom(_, _, _)
DedupFrom(results, i, best) ==
  IF i > Len(results) THEN best
  ELSE LET r == results[i]
           at == {k \in 1 .. Len(best) : TypeKey(best[k]) = TypeKey(r)}
       IN IF at = {} THEN DedupFrom(results, i + 1, Append(best, r))
          ELSE LET k == CHOOSE x \in at : TRUE
                   existing == best[k]
               IN IF ScoreEntry(r) > ScoreEntry(existing)
                    THEN DedupFrom(results, i + 1,
                           [best EXCEPT ![k] =
                              IF existing.path.ext = "cpp"
                                THEN [r EXCEPT !.implementationPath = existing.path]
                                ELSE r])
                    ELSE DedupFrom(results, i + 1,
                           IF r.path.ext = "cpp"
                             THEN [best EXCEPT ![k].implementationPath = r.path]
                             ELSE best)

\* deduped.sort((a, b) => scoreEntry(b) - scoreEntry(a)): a stable sort,
\* higher scores first
SortByScore(deduped) ==
  LET before(i) ==
        Cardinality({j \in 1 .. Len(deduped) :
           \/ ScoreEntry(deduped[j]) > ScoreEntry(deduped[i])
           \/ (ScoreEntry(deduped[j]) = ScoreEntry(deduped[i]) /\ j < i)})
  IN [k \in 1 .. Len(deduped) |->
        deduped[CHOOSE i \in 1 .. Len(deduped) : before(i) = k - 1]]

\* the sort without the deduplication
SortOnly(results) == SortByScore(results)

DedupTypes(results) == SortByScore(DedupFrom(results, 1, <<>>))

ScoringIdle ==
  /\ scResults = <<>>
  /\ scDeduped = <<>>
  /\ scPc = "idle"

ScoringInit ==
  /\ scResults \in SeqsUpTo(TypeInputs, MaxRecords)
  /\ scDeduped = <<>>
  /\ scPc = "input"

\* find-type hands its candidate records to dedupTypes and answers with the
\* returned list
DedupTypesCall ==
  /\ scPc = "input"
  /\ scDeduped' = DedupTypes(scResults)
  /\ scPc' = "done"
  /\ UNCHANGED scResults
  /\ ScoringOnly

ScoringNext == DedupTypesCall

(***************************************************************************)
(* Part 7: POST /batch                                                     *)
(***************************************************************************)

\* The /batch handler is not among the sources (its callers fetchBatch and
\* testBatchEndpoint are); it is modelled from the endpoint table and the
\* acceptance scenarios: at most BatchLimit inner queries, run in sequence,
\* each answered by a result or, for a method that does not exist, an error.

\* Bound: the inner queries of a request.
MaxQueries == 11

\* "Maximum 10 queries per batch"
BatchLimit == 10

BatchMethods ==
  {"findTypeByName", "findMember", "findChildrenOf", "findFileByName",
   "findAssetByName", "listModules", "browseModule"}

\* the inner queries of the requests
QueryKinds ==
  {[method |-> "findTypeByName", arg |-> "AActor"],
   [method |-> "findMember", arg |-> "BeginPlay"],
   [method |-> "invalidMethod", arg |-> ""]}

\* every list of up to four queries, and one list of each greater length
BatchInputs ==
  SeqsUpTo(QueryKinds, 4) \cup
  {[i \in 1 .. n |->
      IF i % 3 = 0 THEN [method |-> "invalidMethod", arg |-> ""]
      ELSE IF i % 3 = 1 THEN [method |-> "findTypeByName", arg |-> "AActor"]
      ELSE [method |-> "findMember", arg |-> "BeginPlay"]] : n \in 5 .. MaxQueries}

\* a limit that lets one query more through
RefusedAboveLimit(n) == n = 0 \/ n > BatchLimit + 1

\* the request is refused with 400
Refused(n) == n = 0 \/ n > BatchLimit

\* what one inner query yields from the index, which no query changes
QueryResult(q) == <<q.method, q.arg>>

BatchEntry(q) ==
  IF q.method \in BatchMethods
    THEN [result |-> QueryResult(q)]
    ELSE [error |-> "Unknown method"]

\* a loop that gives up at the first invalid method
EntriesUntilError(queries) ==
  LET bad == {i \in 1 .. Len(queries) : queries[i].method \notin BatchMethods}
      last == IF bad = {} THEN Len(queries) ELSE Min(bad)
  IN [i \in 1 .. last |-> BatchEntry(queries[i])]

\* the loop over the inner queries
BatchEntries(queries) == [i \in 1 .. Len(queries) |-> BatchEntry(queries[i])]

BatchIdle ==
  /\ bPc = "idle"
  /\ bQueries = <<>>
  /\ bStatus = 0
  /\ bResults = <<>>
  /\ bExecuted = <<>>

\* POST /batch
Batch(queries) ==
  /\ bPc = "idle"
  /\ bPc' = "done"
  /\ bQueries' = queries
  /\ IF Refused(Len(queries))
       THEN /\ bStatus' = 400
            /\ bResults' = <<>>
            /\ bExecuted' = <<>>
       ELSE /\ bStatus' = 200
            /\ bResults' = BatchEntries(queries)
            /\ bExecuted' = SelectSeq(queries, LAMBDA q : q.method \in BatchMethods)
  /\ BatchOnly

BatchNext == \E queries \in BatchInputs : Batch(queries)

(***************************************************************************)
(* Part 8: Indexer.findChildrenOf (src/indexer.js)                         *)
(***************************************************************************)

\* Bound: the types of the index; a type's name is its number.
MaxTypes == 3

TypeNames == 1 .. MaxTypes

\* the elements of a set of names in ascending order
RECURSIVE Ascending(_)
Ascending(S) ==
  IF S = {} THEN <<>> ELSE <<Min(S)>> \o Ascending(S \ {Min(S)})

ChildrenIdle ==
  /\ cPc = "idle"
  /\ cGraph = [t \in TypeNames |-> {}]
  /\ cRecursive = FALSE
  /\ cQueue = <<>>
  /\ cChildren = {}
  /\ cEnqueued = [t \in TypeNames |-> 0]
  /\ cRounds = 0

\* findChildrenOf(parentClass, options) up to the while loop
FindChildrenOf(graph, parentClass, recursive) ==
  /\ cPc = "idle"
  /\ cPc' = "loop"
  /\ cGraph' = graph
  /\ cRecursive' = recursive
  /\ cQueue' = <<parentClass>>
  /\ cChildren' = {}
  /\ cEnqueued' = [cEnqueued EXCEPT ![parentClass] = 1]
  /\ cRounds' = 0
  /\ ChildrenOnly

\* one iteration of `while (queue.length > 0)`
ChildrenLoop ==
  /\ cPc = "loop"
  /\ cQueue # <<>>
  /\ LET current == Head(cQueue)
         fresh == cGraph[current] \ cChildren
         pushed == IF cRecursive THEN fresh ELSE {}
     IN /\ cChildren' = cChildren \cup fresh
        /\ cQueue' = Tail(cQueue) \o Ascending(pushed)
        /\ cEnqueued' = [t \in TypeNames |->
                           IF t \in pushed THEN cEnqueued[t] + 1 ELSE cEnqueued[t]]
  /\ cRounds' = cRounds + 1
  /\ UNCHANGED <<cPc, cGraph, cRecursive>>
  /\ ChildrenOnly

\* the loop ends with the queue empty
ChildrenDone ==
  /\ cPc = "loop"
  /\ cQueue = <<>>
  /\ cPc' = "done"
  /\ UNCHANGED <<cGraph, cRecursive, cQueue, cChildren, cEnqueued, cRounds>>
  /\ ChildrenOnly

ChildrenNext ==
  \/ \E graph \in [TypeNames -> SUBSET TypeNames], parentClass \in TypeNames,
        recursive \in BOOLEAN : FindChildrenOf(graph, parentClass, recursive)
  \/ ChildrenLoop
  \/ ChildrenDone

(***************************************************************************)
(* Part 9: ZoektMirror (service/zoekt-mirror.js)                           *)
(***************************************************************************)

\* Bounds of the mirror model: rows of the store, operations of one run.
MaxRows == 2
MaxMirrorOps == 3

\* A path is a string, kept as the sequence of its characters.
PathChar == [slash |-> 47, backslash |-> 92, a |-> 97, b |-> 98]

\* "/a/a", "/a/b" and "\ab\a"
MirrorPaths ==
  {<<PathChar.slash, PathChar.a, PathChar.slash, PathChar.a>>,
   <<PathChar.slash, PathChar.a, PathChar.slash, PathChar.b>>,
   <<PathChar.backslash, PathChar.a, PathChar.b, PathChar.backslash, PathChar.a>>}

\* path.replace(/\\/g, '/')
NormalizeSlashes(path) ==
  [i \in 1 .. Len(path) |->
     IF path[i] = PathChar.backslash THEN PathChar.slash ELSE path[i]]

\* The content column holds the deflated text; inflateSync gives the text back.
Deflated(text) == [z |-> text]

Inflate(blob) == blob.z

MirrorTexts == {1, 2}

MirrorLanguages == {"cpp", "asset"}

MirrorRows == [path : MirrorPaths, language : MirrorLanguages,
               content : {Deflated(t) : t \in MirrorTexts}]

\* The stores: lists of rows, no path twice (files.path is unique).
MirrorStores ==
  {rows \in SeqsUpTo(MirrorRows, MaxRows) :
     \A i, j \in 1 .. Len(rows) : i # j => rows[i].path # rows[j].path}

\* WHERE language NOT IN ('content', 'asset')
IsSourceRow(row) == row.language \notin {"content", "asset"}

SourceRows(rows) == SelectSeq(rows, IsSourceRow)

\* The rows the sample query keeps of each project; the store of the model
\* holds one project.
SampleLimit == 5

FirstN(seq, n) == SubSeq(seq, 1, IF Len(seq) < n THEN Len(seq) ELSE n)

SamplePaths(rows) ==
  LET kept == FirstN(SourceRows(rows), SampleLimit)
  IN  [i \in 1 .. Len(kept) |-> NormalizeSlashes(kept[i].path)]

\* str.lastIndexOf('/'), as a JavaScript index: -1 when there is none
LastIndexOfSlash(str) ==
  LET at == {i \in 1 .. Len(str) : str[i] = PathChar.slash}
  IN  IF at = {} THEN -1 ELSE (CHOOSE i \in at : \A j \in at : j <= i) - 1

\* str.slice(0, end); a negative end counts from the end of the string
SliceTo(str, end) ==
  LET stop == IF end < 0 THEN Len(str) + end ELSE end
  IN  SubSeq(str, 1, IF stop < 0 THEN 0 ELSE stop)

\* while (pathPrefix && !p.startsWith(pathPrefix)) pathPrefix = pathPrefix.slice(...)
RECURSIVE ShrinkPrefix(_, _)
ShrinkPrefix(prefix, p) ==
  IF prefix # <<>> /\ ~StartsWith(p, prefix)
    THEN ShrinkPrefix(SliceTo(prefix, LastIndexOfSlash(prefix)), p)
    ELSE prefix

\* for (const p of sample) ..., from the i-th path on
RECURSIVE ShrinkOver(_, _, _)
ShrinkOver(prefix, sample, i) ==
  IF i > Len(sample) THEN prefix
  ELSE ShrinkOver(ShrinkPrefix(prefix, sample[i]), sample, i + 1)

\* The prefix computation of bootstrapFromDatabase; `old` is this.pathPrefix
\* before it.
ComputePrefix(sample, old) ==
  IF Len(sample) > 0
    THEN LET shrunk == ShrinkOver(sample[1], sample, 1)
         IN  IF shrunk # <<>> /\ shrunk[Len(shrunk)] # PathChar.slash
               THEN Append(shrunk, PathChar.slash)
               ELSE shrunk
    ELSE old

\* _toRelativePath
ToRelativePath(prefix, fullPath) ==
  LET normalized == NormalizeSlashes(fullPath)
  IN  IF prefix # <<>> /\ StartsWith(normalized, prefix)
        THEN SubSeq(normalized, Len(prefix) + 1, Len(normalized))
        ELSE normalized

\* join(this.mirrorDir, relativePath), as the path below mirrorDir: the
\* slashes a relative path starts with are dropped.
RECURSIVE JoinMirrorDir(_)
JoinMirrorDir(relativePath) ==
  IF relativePath # <<>> /\ relativePath[1] = PathChar.slash
    THEN JoinMirrorDir(Tail(relativePath))
    ELSE relativePath

MirrorFile(prefix, fullPath) == JoinMirrorDir(ToRelativePath(prefix, fullPath))

\* mkdirSync(dirname(fullPath)) and writeFileSync throw when a directory of
\* the path is a file, or when the path is a directory.
WriteThrows(disk, file) ==
  \/ file = <<>>
  \/ \E other \in DOMAIN disk :
       \/ StartsWith(file, Append(other, PathChar.slash))
       \/ StartsWith(other, Append(file, PathChar.slash))

\* One write inside its try/catch.
WriteFile(disk, file, content) ==
  IF WriteThrows(disk, file) THEN disk ELSE Put(disk, file, content)

\* The loop over the rows of bootstrapFromDatabase, from the i-th row on.
RECURSIVE WriteRows(_, _, _, _)
WriteRows(disk, prefix, rows, i) ==
  IF i > Len(rows) THEN disk
  ELSE WriteRows(WriteFile(disk, MirrorFile(prefix, rows[i].path),
                           Inflate(rows[i].content)),
                 prefix, rows, i + 1)

\* The rows the loop wrote: `written`.
RECURSIVE CountWritten(_, _, _, _)
CountWritten(disk, prefix, rows, i) ==
  IF i > Len(rows) THEN 0
  ELSE LET file == MirrorFile(prefix, rows[i].path)
       IN  (IF WriteThrows(disk, file) THEN 0 ELSE 1)
           + CountWritten(WriteFile(disk, file, Inflate(rows[i].content)),
                          prefix, rows, i + 1)

\* deleteFile with the unlink not guarded by existsSync and try/catch
DeleteUnguarded(disk, file) ==
  [disk |-> Drop(disk, {file}), error |-> file \notin DOMAIN disk]

\* deleteFile: what it leaves on the disk, and whether an exception left it
DeleteOutcome(disk, file) ==
  [disk |-> IF file \in DOMAIN disk THEN Drop(disk, {file}) ELSE disk,
   error |-> FALSE]

\* deleteByPath of the store: the row of the path goes, if there is one.
DeleteByPath(rows, path) == SelectSeq(rows, LAMBDA row : row.path # path)

MirrorLogInit ==
  [op |-> "none", path |-> <<>>, repeat |-> FALSE, changed |-> FALSE,
   prevChanged |-> FALSE, prev |-> <<>>, error |-> FALSE]

MirrorIdle ==
  /\ mStore = <<>>
  /\ mDisk = EmptyMap
  /\ mPrefix = <<>>
  /\ mMarker = <<>>
  /\ mOps = 0
  /\ mLog = MirrorLogInit

\* bootstrapFromDatabase(database), the database holding `rows`
BootstrapFromDatabase(rows) ==
  /\ mOps < MaxMirrorOps
  /\ LET prefix == ComputePrefix(SamplePaths(rows), mPrefix)
         source == SourceRows(rows)
     IN  /\ mPrefix' = prefix
         /\ mDisk' = WriteRows(mDisk, prefix, source, 1)
         /\ mMarker' = <<[fileCount |-> CountWritten(mDisk, prefix, source, 1),
                          pathPrefix |-> prefix]>>
  /\ mStore' = rows
  /\ mOps' = mOps + 1
  /\ mLog' = [MirrorLogInit EXCEPT !.op = "bootstrap"]
  /\ MirrorOnly

\* updateFile(filePath, content)
UpdateFile(filePath, content) ==
  /\ mOps < MaxMirrorOps
  /\ mDisk' = WriteFile(mDisk, MirrorFile(mPrefix, filePath), content)
  /\ mOps' = mOps + 1
  /\ mLog' = [MirrorLogInit EXCEPT !.op = "update", !.path = filePath]
  /\ UNCHANGED <<mStore, mPrefix, mMarker>>
  /\ MirrorOnly

\* A delete of the ingest service: deleteByPath on the store, then
\* deleteFile(filePath) on the mirror.
DeletePath(filePath) ==
  /\ mOps < MaxMirrorOps
  /\ LET outcome == DeleteOutcome(mDisk, MirrorFile(mPrefix, filePath))
     IN  /\ mStore' = DeleteByPath(mStore, filePath)
         /\ mDisk' = outcome.disk
         /\ mLog' = [op |-> "delete", path |-> filePath,
                     repeat |-> mLog.op = "delete" /\ mLog.path = filePath,
                     changed |-> <<mStore', mDisk'>> # <<mStore, mDisk>>,
                     prevChanged |-> mLog.changed,
                     prev |-> <<mStore, mDisk>>,
                     error |-> outcome.error]
  /\ mOps' = mOps + 1
  /\ UNCHANGED <<mPrefix, mMarker>>
  /\ MirrorOnly

MirrorNext ==
  \/ \E rows \in MirrorStores : BootstrapFromDatabase(rows)
  \/ \E filePath \in MirrorPaths, content \in MirrorTexts : UpdateFile(filePath, content)
  \/ \E filePath \in MirrorPaths : DeletePath(filePath)

(***************************************************************************)
(* Part 10: MCP bridge (bridge/mcp-bridge.js)                              *)
(***************************************************************************)

\* Bound: tool calls of one run.
MaxCalls == 2

\* The port of 'http://127.0.0.1:3847'; a service URL is kept as its port.
FallbackPort == 3847

\* An optional string is {} when it is undefined, else the set of the string.
Undefined == {}

Truthy(str) == str # Undefined /\ str # {""}

TheString(str) == CHOOSE x \in str : TRUE

\* What workspaces.json can hold: nothing readable, or a workspaces object
\* and an optional defaultWorkspace.
WorkspaceNames == {"main", "alt"}

PortOf(name) == IF name = "main" THEN FallbackPort ELSE FallbackPort + 1

Unreadable == [readable |-> FALSE, workspaces |-> {}, defaultWorkspace |-> Undefined]

WorkspaceConfigs ==
  {Unreadable}
  \cup [readable : {TRUE}, workspaces : SUBSET WorkspaceNames,
        defaultWorkspace : {Undefined, {"main"}, {"alt"}}]

\* [...workspaceUrls.keys()][0]: the keys are in the order of the file, which
\* lists "main" before "alt".
FirstKey(names) ==
  IF "main" \in names THEN {"main"} ELSE IF "alt" \in names THEN {"alt"} ELSE Undefined

\* resolveServiceUrl with an unknown workspace sent to the default one
ResolveOrDefault(workspace, urls, default) ==
  IF Truthy(workspace) /\ TheString(workspace) \in DOMAIN urls
    THEN [throws |-> FALSE, port |-> urls[TheString(workspace)]]
  ELSE IF default # Undefined /\ TheString(default) \in DOMAIN urls
    THEN [throws |-> FALSE, port |-> urls[TheString(default)]]
  ELSE [throws |-> FALSE, port |-> FallbackPort]

\* resolveServiceUrl(workspace)
ResolveServiceUrl(workspace, urls, default) ==
  IF Truthy(workspace) /\ TheString(workspace) \in DOMAIN urls
    THEN [throws |-> FALSE, port |-> urls[TheString(workspace)]]
  ELSE IF Truthy(workspace) /\ TheString(workspace) \notin DOMAIN urls
    THEN [throws |-> TRUE, port |-> 0]
  ELSE IF default # Undefined /\ TheString(default) \in DOMAIN urls
    THEN [throws |-> FALSE, port |-> urls[TheString(default)]]
  ELSE [throws |-> FALSE, port |-> FallbackPort]

\* The tools of the switch, by the endpoint each one asks, and a name that is
\* not a tool.
ToolEndpoint ==
  [unreal_find_type |-> "/find-type", unreal_refresh_index |-> "/refresh",
   unreal_batch |-> "/batch"]

ToolNames == DOMAIN ToolEndpoint \cup {"no_such_tool"}

WorkspaceArgs == {Undefined, {""}, {"main"}, {"alt"}, {"ghost"}}

NoCall == [name |-> "", workspace |-> Undefined]

NoResult == [isError |-> FALSE, text |-> ""]

BridgeIdle ==
  /\ brPc = "start"
  /\ brUrls = EmptyMap
  /\ brDefault = Undefined
  /\ brCall = NoCall
  /\ brServiceUrl = 0
  /\ brResult = NoResult
  /\ brHttp = <<>>
  /\ brLog = [calls |-> 0, httpBefore |-> 0]

\* loadWorkspacesConfig(), outside a container
LoadWorkspacesConfig(cfg) ==
  /\ brPc = "start"
  /\ IF cfg.readable
       THEN /\ brUrls' = [name \in cfg.workspaces |-> PortOf(name)]
            /\ brDefault' = IF Truthy(cfg.defaultWorkspace)
                              THEN cfg.defaultWorkspace
                              ELSE FirstKey(cfg.workspaces)
       ELSE /\ brUrls' = [name \in {"default"} |-> FallbackPort]
            /\ brDefault' = {"default"}
  /\ brPc' = "ready"
  /\ UNCHANGED <<brCall, brServiceUrl, brResult, brHttp, brLog>>
  /\ BridgeOnly

\* trackCall(result): the analytics POST, sent and not awaited
TrackCall(http, port) ==
  Append(http, [port |-> port, endpoint |-> "/internal/mcp-tool-call", kind |-> "analytics"])

\* The CallTool handler up to its first await, or to its return when it
\* returns before one.
CallTool(name, workspace) ==
  /\ brPc = "ready"
  /\ brLog.calls < MaxCalls
  /\ brCall' = [name |-> name, workspace |-> workspace]
  /\ brLog' = [calls |-> brLog.calls + 1, httpBefore |-> Len(brHttp)]
  /\ LET resolved == ResolveServiceUrl(workspace, brUrls, brDefault)
     IN  IF resolved.throws
           THEN /\ brResult' = [isError |-> TRUE, text |-> "Error: Unknown workspace"]
                /\ brServiceUrl' = 0
                /\ UNCHANGED <<brPc, brHttp>>
         ELSE IF name \in DOMAIN ToolEndpoint
           THEN /\ brHttp' = Append(brHttp, [port |-> resolved.port,
                                             endpoint |-> ToolEndpoint[name],
                                             kind |-> "query"])
                /\ brServiceUrl' = resolved.port
                /\ brResult' = NoResult
                /\ brPc' = "awaiting"
         ELSE /\ brResult' = [isError |-> TRUE, text |-> "Unknown tool"]
              /\ brHttp' = TrackCall(brHttp, resolved.port)
              /\ brServiceUrl' = resolved.port
              /\ UNCHANGED brPc
  /\ UNCHANGED <<brUrls, brDefault>>
  /\ BridgeOnly

\* The awaited fetch settles: a 2xx answer, an answer that is not ok, or a
\* refused connection; the handler tracks the call and returns.
QuerySettles(outcome) ==
  /\ brPc = "awaiting"
  /\ brResult' = CASE outcome = "ok" -> [isError |-> FALSE, text |-> "toolResult"]
                   [] outcome = "not_ok" -> [isError |-> TRUE, text |-> "Error: HTTP error"]
                   [] OTHER -> [isError |-> TRUE, text |-> "Unreal Index Service is not running"]
  /\ brHttp' = TrackCall(brHttp, brServiceUrl)
  /\ brPc' = "ready"
  /\ UNCHANGED <<brUrls, brDefault, brCall, brServiceUrl, brLog>>
  /\ BridgeOnly

BridgeNext ==
  \/ \E cfg \in WorkspaceConfigs : LoadWorkspacesConfig(cfg)
  \/ \E name \in ToolNames, workspace \in WorkspaceArgs : CallTool(name, workspace)
  \/ \E outcome \in {"ok", "not_ok", "refused"} : QuerySettles(outcome)

(***************************************************************************)
(* Part 11: Setup GUI, the workspaces of workspaces.json (src/setup-gui.js) *)
(***************************************************************************)

\* Bound: requests of one run.
MaxSetupOps == 4

\* The first port getNextAvailablePort tries.
BasePort == 3847

\* Names a request can carry: three that /^[a-z0-9][a-z0-9-]*$/ accepts and
\* one it rejects.
ValidNames == {"a", "b", "c"}

RequestNames == ValidNames \cup {"B"}

NameIsValid(name) == name \in ValidNames

NamesOf(list) == {list[i].name : i \in 1 .. Len(list)}

EntryOf(list, name) == list[CHOOSE i \in 1 .. Len(list) : list[i].name = name]

\* delete workspaces.workspaces[name]
WithoutName(list, name) == SelectSeq(list, LAMBDA entry : entry.name # name)

\* workspaces.workspaces[name] = entry: in place when the key exists, else at
\* the end of the key order
SetEntry(list, entry) ==
  IF entry.name \in NamesOf(list)
    THEN [i \in 1 .. Len(list) |-> IF list[i].name = entry.name THEN entry ELSE list[i]]
    ELSE Append(list, entry)

\* getNextAvailablePort(wsConfig)
NextAvailablePort(list) ==
  LET used == {list[i].port : i \in 1 .. Len(list)}
  IN  Min({port \in BasePort .. (BasePort + Len(list)) : port \notin used})

\* Object.keys(...)[0] || 'main'
FirstNameOrMain(list) == IF Len(list) > 0 THEN list[1].name ELSE "main"

\* const vol = ws.volumePrefix || name
VolumePrefixOf(entry) ==
  IF entry.volumePrefix # "" THEN entry.volumePrefix ELSE entry.name

SetupIdle ==
  /\ suWorkspaces = <<>>
  /\ suDefault = ""
  /\ suStatus = 0
  /\ suOps = 0

SetupRefuse(status) ==
  /\ suStatus' = status
  /\ UNCHANGED <<suWorkspaces, suDefault>>

\* POST /api/workspaces
CreateWorkspace(name, hasProjects) ==
  /\ suOps < MaxSetupOps
  /\ suOps' = suOps + 1
  /\ IF ~NameIsValid(name) \/ ~hasProjects THEN SetupRefuse(400)
     ELSE LET port == IF name \in NamesOf(suWorkspaces)
                        THEN EntryOf(suWorkspaces, name).port
                        ELSE NextAvailablePort(suWorkspaces)
              after == SetEntry(suWorkspaces,
                                [name |-> name, port |-> port, volumePrefix |-> ""])
          IN  /\ suWorkspaces' = after
              /\ suDefault' = IF Len(after) = 1 THEN name
                              ELSE IF suDefault = "" THEN FirstNameOrMain(suWorkspaces)
                              ELSE suDefault
              /\ suStatus' = 200
  /\ SetupOnly

\* POST /api/workspaces/:name/rename
RenameWorkspace(name, newName) ==
  /\ suOps < MaxSetupOps
  /\ suOps' = suOps + 1
  /\ IF ~NameIsValid(newName) THEN SetupRefuse(400)
     ELSE IF name \notin NamesOf(suWorkspaces) THEN SetupRefuse(404)
     ELSE IF newName = name THEN SetupRefuse(200)
     ELSE IF newName \in NamesOf(suWorkspaces) THEN SetupRefuse(409)
     ELSE LET old == EntryOf(suWorkspaces, name)
              wsEntry == [name |-> newName, port |-> old.port,
                          volumePrefix |-> IF old.volumePrefix = "" THEN name
                                           ELSE old.volumePrefix]
          IN  /\ suWorkspaces' = WithoutName(Append(suWorkspaces, wsEntry), name)
              /\ suDefault' = IF suDefault = name THEN newName ELSE suDefault
              /\ suStatus' = 200
  /\ SetupOnly

\* DELETE /api/workspaces/:name
DeleteWorkspace(name) ==
  /\ suOps < MaxSetupOps
  /\ suOps' = suOps + 1
  /\ IF name \notin NamesOf(suWorkspaces) THEN SetupRefuse(404)
     ELSE /\ suWorkspaces' = WithoutName(suWorkspaces, name)
          /\ suDefault' = IF suDefault = name
                            THEN FirstNameOrMain(WithoutName(suWorkspaces, name))
                            ELSE suDefault
          /\ suStatus' = 200
  /\ SetupOnly

SetupNext ==
  \/ \E name \in RequestNames, hasProjects \in BOOLEAN : CreateWorkspace(name, hasProjects)
  \/ \E name \in ValidNames, newName \in RequestNames : RenameWorkspace(name, newName)
  \/ \E name \in ValidNames : DeleteWorkspace(name)

RestIdle == BatchIdle /\ ChildrenIdle /\ MirrorIdle /\ BridgeIdle /\ SetupIdle

(***************************************************************************)
(* Specifications                                                          *)
(***************************************************************************)

\* The query pool.
Init ==
  PoolInit /\ ZoektInit /\ TrigramIdle /\ IngestInit /\ GrepInit /\ HealthInit /\ ScoringIdle
  /\ RestIdle

Next == PoolNext

Spec == Init /\ [][Next]_vars

\* The query pool with the events Node delivers: a started worker reports
\* ready, a worker that was posted a message answers it, a timer that is set
\* fires, a thread that failed or was terminated exits.  Calls of the pool's
\* methods and exceptions inside a worker are left to their callers.
PoolFairness ==
  /\ \A e \in 1 .. MaxEntries :
       /\ WF_vars(Ready(e))
       /\ WF_vars(\E isError \in BOOLEAN : Reply(e, isError))
       /\ WF_vars(\E code \in {0, 1} : WorkerExit(e, code))
  /\ \A r \in ReqIds, e \in 1 .. MaxEntries : WF_vars(Timeout(r, e))

SpecPoolLive == Spec /\ PoolFairness

\* The external-engine driver.
SpecZoekt == Init /\ [][ZoektNext]_vars

\* The indexer with one call of triggerReindex() and no stop(): timers fire,
\* the clock advances, a runIndex call that awaits the mirror sync goes on,
\* and an index process exits.  Direct calls of runIndex are left to the caller.
ReindexNext ==
  \/ RunIndexCall
  \/ RunIndexSpawn
  \/ \E p \in 1 .. MaxIndexProcs : IndexExit(p)
  \/ (~zBurst.called /\ TriggerReindex)
  \/ ReindexTimerFire
  \/ Tick

ReindexFairness ==
  /\ WF_vars(RunIndexSpawn)
  /\ WF_vars(\E p \in 1 .. MaxIndexProcs : IndexExit(p))
  /\ WF_vars(ReindexTimerFire)
  /\ WF_vars(Tick)

SpecReindexLive == Init /\ [][ReindexNext]_vars /\ ReindexFairness

\* The trigram module.
InitTrigram ==
  PoolInit /\ ZoektInit /\ TrigramInit /\ IngestInit /\ GrepInit /\ HealthInit /\ ScoringIdle
  /\ RestIdle

SpecTrigram == InitTrigram /\ [][TrigramNext]_vars

InitTrigramCases ==
  PoolInit /\ ZoektInit /\ TrigramCasesInit /\ IngestInit /\ GrepInit /\ HealthInit /\ ScoringIdle
  /\ RestIdle

SpecTrigramCases == InitTrigramCases /\ [][TrigramNext]_vars

InitScoring ==
  PoolInit /\ ZoektInit /\ TrigramIdle /\ IngestInit /\ GrepInit /\ HealthInit /\ ScoringInit
  /\ RestIdle

SpecScoring == InitScoring /\ [][ScoringNext]_vars

\* The ingest service.
SpecIngest == Init /\ [][IngestNext]_vars

\* One /grep request.
SpecGrep == Init /\ [][GrepNext]_vars

SpecBatch == Init /\ [][BatchNext]_vars

SpecChildren == Init /\ [][ChildrenNext]_vars

\* The mirror.
SpecMirror == Init /\ [][MirrorNext]_vars

\* The bridge.
SpecBridge == Init /\ [][BridgeNext]_vars

\* The setup GUI.
SpecSetup == Init /\ [][SetupNext]_vars

(***************************************************************************)
(* Claims about the QueryPool                                              *)
(***************************************************************************)

\* The entry stored at slot i of this.workers, 0 when the slot is absent or empty.
SlotEntry(i) == IF i \in 1 .. Len(workers) THEN workers[i] ELSE Hole

Dispatched(r) == \E e \in 1 .. Len(entries) : r \in entries[e].pending

\* C7 (as stated): after the timeout callback of a dispatched request has run,
\* the request is rejected with the timeout error, the slot it was dispatched to
\* is idle when nothing was queued, and otherwise the request at the head of the
\* queue has been dispatched to that very slot.
C7_TimeoutFeedsSameSlot ==
  lastOp.op = "timeout" =>
    /\ promise[lastOp.req] = "rejTimeout"
    /\ IF lastOp.qhead = -1
         THEN ~entries[lastOp.entry].busy
         ELSE lastOp.qhead \in entries[lastOp.entry].pending

\* C7 (amended): after the timeout callback has run, the request is rejected
\* with the timeout error and no longer held by its entry, which is idle unless
\* queue processing handed it a queued request; the queue has been processed
\* against the pool array: either the queue is empty, or no worker in the array
\* is idle, or the scan hit an empty slot and threw.
C7_TimeoutReleasesAndProcessesQueue ==
  lastOp.op = "timeout" =>
    /\ promise[lastOp.req] = "rejTimeout"
    /\ lastOp.req \notin entries[lastOp.entry].pending
    /\ [req |-> lastOp.req, entry |-> lastOp.entry] \notin timers
    /\ entries[lastOp.entry].busy =>
         /\ lastOp.qhead # -1
         /\ entries[lastOp.entry].pending # {}
         /\ \A q \in entries[lastOp.entry].pending : q >= lastOp.qhead
    /\ \/ queue = <<>>
       \/ FindIdle(workers, entries).kind = "none"
       \/ crashed /\ FindIdle(workers, entries).kind = "throw"
    /\ (lastOp.qhead # -1 /\ FindIdle(workers, entries).kind = "found")
         => Dispatched(lastOp.qhead)

\* C7 witness: a timeout ran while a request was queued, and the queued request
\* now runs on the entry the timed-out request had occupied.
C7_Witness ==
  /\ lastOp.op = "timeout"
  /\ lastOp.qhead # -1
  /\ promise[lastOp.req] = "rejTimeout"
  /\ lastOp.qhead \in entries[lastOp.entry].pending
  /\ ~crashed

\* C8 (as stated): when shutdown() has returned, no request submitted through
\* execute() is still unanswered and no worker thread is left running.
C8_ShutdownRejectsAllPending ==
  lastOp.op = "shutdown" =>
    /\ \A r \in ReqIds : promise[r] # "pending"
    /\ \A e \in 1 .. Len(entries) : entries[e].thread \notin {"starting", "running"}

\* C9 (as stated): after a worker's error event or non-zero exit a replacement
\* entry sits in the same slot, and after a replacement has reported ready the
\* queue has been dispatched as far as idle workers allow.
C9_RespawnAndReprocess ==
  /\ (lastOp.op = "error" \/ (lastOp.op = "exit" /\ lastOp.req # 0)) =>
       /\ SlotEntry(entries[lastOp.entry].index) # Hole
       /\ SlotEntry(entries[lastOp.entry].index) # lastOp.entry
       /\ entries[SlotEntry(entries[lastOp.entry].index)].thread = "starting"
       /\ entries[SlotEntry(entries[lastOp.entry].index)].respawn
  /\ (lastOp.op = "ready" /\ entries[lastOp.entry].respawn) =>
       \/ queue = <<>>
       \/ FindIdle(workers, entries).kind = "none"

\* The queue limit the specification speaks of (the pool defines none).
QueueLimit == 1

\* C10 (as stated): the wait queue never grows beyond its limit, a request
\* submitted when no worker is idle and the queue is full being refused.
C10_QueueBounded == Len(queue) <= QueueLimit

(***************************************************************************)
(* Claims about the ZoektManager                                           *)
(***************************************************************************)

\* C6 (as stated): at most one zoekt-index process started by runIndex is
\* alive at any time.
C6_SingleIndexer == Cardinality(zProcs) <= 1

\* 1000 * 2^(k-1) ms, at most 30000 ms
BackoffMs(k) == IF 1000 * 2^(k - 1) <= 30000 THEN 1000 * 2^(k - 1) ELSE 30000

\* a step in which the web server's exit handler ran
WebExitStep == zLog'.exits = zLog.exits + 1

\* C13: when the web-server process exits for the k-th time in a row with
\* no successful health check in between, and stop() has not been invoked,
\* the exit handler schedules a restart after min(1000 * 2^(k-1), 30000) ms
\* for k = 1..5 and schedules none for k = 6.
C13_RestartBackoff ==
  [][(WebExitStep /\ zStopPc = "no") =>
       LET k == zLog'.consec
       IN /\ k \in 1 .. 6
          /\ k <= 5 => (zRestartTimer' = BackoffMs(k) /\ zLog'.delay = BackoffMs(k))
          /\ k = 6 => (zRestartTimer' = 0 /\ zLog'.delay = 0)]_vars

\* the sixth exit in a row has happened and nothing is scheduled
C13_Witness ==
  /\ zLog.consec = 6
  /\ zLog.exits = 6
  /\ ~zLog.stopped
  /\ zStopPc = "no"
  /\ zRestartTimer = 0
  /\ ~zWeb

\* C14: once stop() has been invoked, an exit of the web-server process
\* schedules no restart: no restart timeout is pending after the handler.
C14_NoRestartAfterStop ==
  [][(WebExitStep /\ zStopPc # "no") =>
       (zRestartTimer' = 0 /\ zLog'.delay = 0 /\ zRestartAttempts' = zRestartAttempts)]_vars

\* the web server exited after stop() with restart attempts to spare
C14_Witness ==
  /\ zLog.stopped
  /\ zLog.exits >= 1
  /\ zLog.delay = 0
  /\ zRestartAttempts < 5
  /\ ~zWeb

\* C15: with the mirror root set and no stop() in between, a burst of
\* triggerReindex() calls, each less than the debounce window after the one
\* before, leads to exactly one runIndex invocation by the timer, and that
\* invocation happens one window after the last call: none before, the
\* timer still pending until then, and exactly one from then on.
C15_DebounceOneRun ==
  zBurst.called =>
    /\ zMirrorRoot
    /\ zBurst.runs <= 1
    /\ zBurst.since < DebounceTicks => (zBurst.runs = 0 /\ zTimer)
    /\ zBurst.since = DebounceTicks => (zBurst.runs = 0 <=> zTimer)
    /\ zBurst.since > DebounceTicks => (zBurst.runs = 1 /\ ~zTimer)

\* a burst of two calls or more was followed by its one run
C15_Witness ==
  /\ zBurst.called
  /\ zBurst.calls >= 2
  /\ zBurst.runs = 1
  /\ zBurst.since = DebounceTicks

\* C5: whenever the pattern matches the text, every trigram that
\* patternToTrigrams(P, true) returned is among extractTrigrams(F).
C5_TrigramsSound ==
  (tgPc = "done" /\ Matches(tgPattern, tgIgnoreCase, tgText)) => tgResult \subseteq tgIndexed

\* the trigram set of one branch: what patternToTrigrams gives for it alone
BranchTrigrams(branch) == PatternToTrigrams(branch, TRUE)

\* C17: for a pattern made of two or more top-level branches joined by `|`,
\* patternToTrigrams returns the empty set when some branch has no trigram
\* and otherwise exactly the trigrams common to all the branches.
C17_AlternationIntersects ==
  \A branches \in BranchLists :
    (tgPc = "done" /\ tgPattern = JoinBranches(branches)) =>
      tgResult =
        IF \E k \in 1 .. Len(branches) : BranchTrigrams(branches[k]) = {}
          THEN {}
          ELSE {t \in BranchTrigrams(branches[1]) :
                  \A k \in 1 .. Len(branches) : t \in BranchTrigrams(branches[k])}

\* a parenthesised branch and another one share some but not all trigrams
C17_Witness ==
  /\ tgPc = "done"
  /\ \E branches \in BranchLists :
       /\ tgPattern = JoinBranches(branches)
       /\ \E k \in 1 .. Len(branches) : CharCode.lparen \in {branches[k][i] : i \in 1 .. Len(branches[k])}
       /\ tgResult # {}
       /\ tgResult # BranchTrigrams(branches[1])

\* C18: every trigram extractTrigrams and patternToTrigrams produced is an
\* integer t with 0 <= t < 2^24.
C18_TrigramsAre24Bit ==
  \A t \in tgIndexed \cup tgResult : 0 <= t /\ t < 2^24

\* C1: when a batch that repeats the batch completed just before it has itself
\* completed, the store (rows and postings), the memory index and the mirror
\* are what they were when the repeat was accepted.
C1_ReplayIsNoOp ==
  (igPc = "idle" /\ igOutcome = "done" /\ igReplay) => Triple = igBefore

C1_Witness ==
  /\ igPc = "idle" /\ igOutcome = "done" /\ igReplay
  /\ igBatch.files # <<>>
  /\ igBatch.files[1].path \in DOMAIN igStore.files

\* C2: while a batch's transaction is open, and after it has been rolled
\* back, the committed store, the memory index and the mirror are what they
\* were when the batch was accepted.
C2_FailedBatchChangesNothing ==
  (igPc = "tx" \/ (igPc = "idle" /\ igOutcome = "rolledback")) => Triple = igBefore

C2_Witness ==
  /\ igPc = "idle" /\ igOutcome = "rolledback"
  /\ igPos > 1
  /\ ApplyItem(igStore, Items(igBatch)[1]) # igStore

\* C3: what a read of the memory index observed is the index of the store after
\* a whole number of committed batches, whenever the read took place.
C3_ReadsSeeWholeBatches == igRead.seen \in igRead.whole

C3_Witness ==
  /\ igPc = "patching" /\ igRead.at = "patching"
  /\ igRead.whole = {LoadMemory(igStore), LoadMemory(igBefore.store)}
  /\ igBuilding \notin igRead.whole

\* C4: outside the publication of a batch, the memory index kept by
\* incremental patching equals, key by key and entry by entry, a fresh load
\* from the committed store.
C4_PatchEqualsFreshLoad ==
  igPc \in {"idle", "tx", "published"} => igMemory = LoadMemory(igStore)

C4_Witness ==
  /\ igPc = "published" /\ igCount >= 2
  /\ igMemory # igBefore.memory
  /\ RemoveOwned(igBefore.memory, igTouched) # igBefore.memory
  /\ DOMAIN igMemory.byExactName # DOMAIN igBefore.memory.byExactName

(***************************************************************************)
(* Claims about /grep                                                      *)
(***************************************************************************)

\* C11 (as stated): when the hard timeout expired while the worker was still
\* scanning, the worker scans no further file and every answer to the request
\* is a 200 with timedOut = true and the filesSearched of that moment.
C11_TimeoutStopsScan ==
  gLog.expired =>
    /\ wFilesSearched <= gLog.expiredAt + 1
    /\ \A i \in 1 .. Len(gResponses) :
         gResponses[i].status = 200 => gResponses[i].timedOut

\* C12: once the connection has closed with no response sent, an abort has
\* been posted to the worker, the worker is terminated and no timeout of the
\* request is pending.
C12_DisconnectAbortsWorker ==
  gLog.closedEarly => (gLog.aborts >= 1 /\ wState = "terminated" /\ ~gTimer)

C12_Witness ==
  /\ gLog.closedEarly
  /\ wIdx < Len(gFiles)
  /\ wFilesSearched >= 1
  /\ ~gLog.expired

C19_HeaderKeptWithImplementation ==
  scPc = "done" =>
    \A i, j \in 1 .. Len(scResults) :
      (/\ TypeKey(scResults[i]) = TypeKey(scResults[j])
       /\ scResults[i].path.ext = "h"
       /\ scResults[j].path.ext = "cpp") =>
        \A k \in 1 .. Len(scDeduped) :
          TypeKey(scDeduped[k]) = TypeKey(scResults[i]) =>
            /\ scDeduped[k].path.ext = "h"
            /\ scDeduped[k].implementationPath \in
                 {scResults[m].path : m \in {n \in 1 .. Len(scResults) :
                    /\ TypeKey(scResults[n]) = TypeKey(scResults[i])
                    /\ scResults[n].path.ext = "cpp"}}

\* the suffixes find-type's description counts as headers
HeaderSuffixes == {"h", "hpp", "hxx"}

\* C20: in the list dedupTypes returns, which find-type answers with, no
\* record with an implementation suffix stands before a record with a header
\* suffix of the same score.
C20_HeaderFirstOnTies ==
  scPc = "done" =>
    \A i, j \in 1 .. Len(scDeduped) :
      (/\ i < j
       /\ ScoreEntry(scDeduped[i]) = ScoreEntry(scDeduped[j])
       /\ scDeduped[j].path.ext \in HeaderSuffixes) =>
        scDeduped[i].path.ext \in HeaderSuffixes

\* C21: the list dedupTypes returns holds exactly one record for each
\* (name, kind) of its input and none for any other, and that record's score
\* is the highest score of the input records with that (name, kind).
C21_OneBestPerKey ==
  scPc = "done" =>
    /\ \A k \in 1 .. Len(scDeduped) :
         \E i \in 1 .. Len(scResults) : TypeKey(scResults[i]) = TypeKey(scDeduped[k])
    /\ \A i \in 1 .. Len(scResults) :
         LET same == {k \in 1 .. Len(scDeduped) : TypeKey(scDeduped[k]) = TypeKey(scResults[i])}
         IN /\ Cardinality(same) = 1
            /\ \A k \in same :
                 /\ ScoreEntry(scDeduped[k]) >= ScoreEntry(scResults[i])
                 /\ \E j \in 1 .. Len(scResults) :
                      /\ TypeKey(scResults[j]) = TypeKey(scResults[i])
                      /\ ScoreEntry(scResults[j]) = ScoreEntry(scDeduped[k])

\* three records, two of one (name, kind) with the better one given later
C21_Witness ==
  /\ scPc = "done"
  /\ Len(scResults) = 3
  /\ Len(scDeduped) = 2
  /\ \E i, j \in 1 .. 3 :
       /\ i < j
       /\ TypeKey(scResults[i]) = TypeKey(scResults[j])
       /\ ScoreEntry(scResults[i]) < ScoreEntry(scResults[j])

\* C22: a /batch request with no inner query or with more than ten is
\* answered with 400 and runs no inner query; inner queries run only for one
\* to ten of them.
C22_BatchLimits ==
  bPc = "done" =>
    /\ (Len(bQueries) = 0 \/ Len(bQueries) >= 11) => (bStatus = 400 /\ bExecuted = <<>>)
    /\ bExecuted # <<>> => (1 <= Len(bQueries) /\ Len(bQueries) <= 10)

\* eleven inner queries were refused
C22_Witness ==
  /\ bPc = "done"
  /\ Len(bQueries) = 11
  /\ bStatus = 400
  /\ bExecuted = <<>>

\* C23: a /batch of one to ten inner queries is answered with as many
\* entries, in the order of the queries; an entry carries an error exactly
\* when its query names no method of the index, and the entry of a valid
\* query is the entry a batch of that query alone gets.
C23_BatchIsolation ==
  (bPc = "done" /\ 1 <= Len(bQueries) /\ Len(bQueries) <= 10) =>
    /\ Len(bResults) = Len(bQueries)
    /\ \A i \in 1 .. Len(bQueries) :
         /\ ("error" \in DOMAIN bResults[i]) <=> (bQueries[i].method \notin BatchMethods)
         /\ bQueries[i].method \in BatchMethods =>
              bResults[i] = [result |-> <<bQueries[i].method, bQueries[i].arg>>]

\* two valid queries around an invalid one
C23_Witness ==
  /\ bPc = "done"
  /\ Len(bQueries) = 3
  /\ bQueries[2].method \notin BatchMethods
  /\ "result" \in DOMAIN bResults[1]
  /\ "error" \in DOMAIN bResults[2]
  /\ "result" \in DOMAIN bResults[3]

\* C24: a /grep request without a pattern, with a pattern that does not
\* compile, or with a project that no indexed file belongs to is answered
\* with 400, and no worker and no timer are started for it.
C24_BadGrepRequestRefused ==
  (/\ gPc # "idle"
   /\ \/ gLog.req.pattern = ""
      \/ gLog.req.pattern = "[invalid"
      \/ (gLog.req.project # "" /\ gLog.req.project \notin gLog.projects)) =>
    /\ gPc = "refused"
    /\ gResponses = <<[status |-> 400]>>
    /\ wState = "none"
    /\ ~gTimer

\* the project asked for has no file although the index is not empty
C24_Witness ==
  /\ gPc = "refused"
  /\ gLog.req.pattern = "test"
  /\ gLog.req.project = "P"
  /\ gLog.projects = {"Q"}
  /\ wState = "none"

\* C25: a /grep request that is served uses maxResults and contextLines at
\* the value of the decimal text sent, 0 included, and at the defaults 50
\* and 2 only when the parameter is absent.
C25_DecimalParameters ==
  gPc \notin {"idle", "refused"} =>
    /\ gMaxResults =
         IF gLog.req.mr.present THEN gLog.req.mr.text[1] - 48 ELSE 50
    /\ gLog.contextLines =
         IF gLog.req.cl.present THEN gLog.req.cl.text[1] - 48 ELSE 2

\* C26: on every graph of parents and children, cycles included, the loop
\* of findChildrenOf puts each type on the queue at most once, and so ends
\* after at most as many iterations as there are types.
C26_EnqueuedOnce ==
  /\ \A t \in TypeNames : cEnqueued[t] <= 1
  /\ cRounds <= MaxTypes

(***************************************************************************)
(* Claims about the mirror                                                 *)
(***************************************************************************)

\* The mirror files the source rows of the store stand for, under the prefix
\* in force.
MirroredFiles ==
  {MirrorFile(mPrefix, SourceRows(mStore)[i].path) : i \in 1 .. Len(SourceRows(mStore))}

\* C27: when bootstrapFromDatabase has returned, the files under the mirror
\* directory are exactly the source rows of the store, each with the inflated
\* content of its row, whatever the directory held before.
C27_MirrorIsExactlyTheStore ==
  mLog.op = "bootstrap" =>
    /\ DOMAIN mDisk = MirroredFiles
    /\ \A i \in 1 .. Len(SourceRows(mStore)) :
         LET row == SourceRows(mStore)[i]
             file == MirrorFile(mPrefix, row.path)
         IN  file \in DOMAIN mDisk /\ mDisk[file] = Inflate(row.content)

\* C28: the prefix bootstrapFromDatabase computed is a prefix of the path of
\* every source row, so that every mirrored file is at its path minus the
\* prefix.
C28_PrefixOfEveryPath ==
  mLog.op = "bootstrap" =>
    \A i \in 1 .. Len(SourceRows(mStore)) :
      LET path == NormalizeSlashes(SourceRows(mStore)[i].path)
      IN  /\ StartsWith(path, mPrefix)
          /\ ToRelativePath(mPrefix, path) = SubSeq(path, Len(mPrefix) + 1, Len(path))

\* C29: a delete of the path that was deleted just before leaves the store
\* and the mirror as the first delete left them, and no exception leaves it.
C29_DeleteTwice ==
  (mLog.op = "delete" /\ mLog.repeat) =>
    /\ <<mStore, mDisk>> = mLog.prev
    /\ ~mLog.error

\* The first of the two deletes removed a row and a file, the second met nothing.
C29_Witness ==
  /\ mLog.op = "delete"
  /\ mLog.repeat
  /\ mLog.prevChanged
  /\ ~mLog.changed
  /\ Len(mStore) > 0

(***************************************************************************)
(* Claims about the bridge                                                 *)
(***************************************************************************)

\* The call names a workspace that the loaded configuration does not hold.
NamesUnknownWorkspace(call) ==
  Truthy(call.workspace) /\ TheString(call.workspace) \notin DOMAIN brUrls

\* C30: a tool call that names a workspace absent from the loaded
\* configuration is answered with an error result, and no HTTP request, query
\* or analytics, is sent for it.
C30_UnknownWorkspaceRefused ==
  (brLog.calls > 0 /\ NamesUnknownWorkspace(brCall)) =>
    /\ brPc = "ready"
    /\ brResult.isError
    /\ Len(brHttp) = brLog.httpBefore

\* Such a call arrived after a call that was served, for a tool of the switch.
C30_Witness ==
  /\ brLog.calls = 2
  /\ NamesUnknownWorkspace(brCall)
  /\ brCall.name \in DOMAIN ToolEndpoint
  /\ brResult.isError
  /\ Len(brHttp) = 2

(***************************************************************************)
(* Claims about the QueryPool, across executions                           *)
(***************************************************************************)

\* C31: every promise execute() returned is settled in the end (a promise
\* settles once: Settle keeps the first settlement), whether its request was
\* dispatched, was waiting in the queue at shutdown(), or was with a worker
\* that failed or exited.
C31_EveryPromiseSettles ==
  \A r \in ReqIds : (promise[r] = "pending") ~> (promise[r] # "pending")

\* C32: requests are dispatched in submission order (ids are given in
\* submission order): no request is with a worker while a request submitted
\* before it is still in the queue.
C32_SubmissionOrder ==
  \A i \in 1 .. Len(queue), e \in 1 .. Len(entries) :
    \A r \in entries[e].pending : r < queue[i]

\* C33: once shutdown() has been called no Worker is created (entries holds
\* every Worker ever created) and no request is dispatched (a dispatch sets a
\* timer).
C33_QuietAfterShutdown ==
  [][phase = "shutdown" =>
       /\ Len(entries') = Len(entries)
       /\ timers' \subseteq timers]_vars

\* The Worker threads that are alive: started and neither failed, terminated
\* nor exited.
LiveWorkers == {e \in 1 .. Len(entries) : entries[e].thread \in {"starting", "running"}}

\* C34: the pool never has more live worker threads than workerCount; a
\* failure reported by an error event and then an exit event is made up for
\* by one replacement.
C34_AtMostWorkerCount == Cardinality(LiveWorkers) <= WorkerCount

(***************************************************************************)
(* Claims about the ZoektManager, across executions                        *)
(***************************************************************************)

\* C35: once stop() has returned no child process is started.  The formula
\* speaks of the web server, which only the manager itself starts; an indexer
\* can also be started by a call of runIndex or triggerReindex made after
\* stop(), which the claim does not speak of.
C35_NothingStartsAfterStop ==
  [][zStopPc = "done" => zWebStarts' = zWebStarts]_vars

\* C36: when triggerReindex() was called while an index process was running
\* (the debounce timer is armed, n processes have been spawned so far) and no
\* further call follows, a process spawned after that call follows.
C36_ReindexAfterRun ==
  \A n \in 0 .. (MaxIndexProcs - 1) :
    (zTimer /\ zIndexProcess # 0 /\ zNextPid = n /\ zSuspended = 0) ~> (zNextPid > n)

(***************************************************************************)
(* Claims about /grep, across executions                                   *)
(***************************************************************************)

\* C37: a /grep request gets at most one response, and no response is written
\* once res has emitted 'close' (a 400 is written before the listener of
\* 'close' exists).
C37_OneResponseNoneAfterClose ==
  /\ Len(gResponses) <= 1
  /\ \A i \in 1 .. Len(gResponses) :
       gResponses[i].status # 400 => ~gResponses[i].afterClose

\* \w of a JavaScript regular expression: [A-Za-z0-9_]
IsWordChar(c) ==
  \/ c \in 48 .. 57
  \/ c \in CharCode.upperA .. CharCode.upperZ
  \/ c \in CharCode.lowerA .. CharCode.lowerZ
  \/ c = 95

\* pattern.split('|')
RECURSIVE SplitOnPipe(_, _, _)
SplitOnPipe(pattern, i, current) ==
  IF i > Len(pattern) THEN <<current>>
  ELSE IF pattern[i] = CharCode.pipe
    THEN <<current>> \o SplitOnPipe(pattern, i + 1, <<>>)
  ELSE SplitOnPipe(pattern, i + 1, Append(current, pattern[i]))

\* extractLiterals(pattern): null, or the non-empty parts between the pipes
ExtractLiterals(pattern) ==
  IF pattern # <<>>
     /\ \A i \in 1 .. Len(pattern) : IsWordChar(pattern[i]) \/ pattern[i] = CharCode.pipe
    THEN [isNull |-> FALSE,
          list |-> SelectSeq(SplitOnPipe(pattern, 1, <<>>), LAMBDA part : Len(part) > 0)]
    ELSE [isNull |-> TRUE, list |-> <<>>]

\* content.includes(lit)
Includes(content, lit) ==
  \E i \in 1 .. (Len(content) - Len(lit) + 1) :
    SubSeq(content, i, i + Len(lit) - 1) = lit

\* The worker's pre-check skips the file:
\* literals && !literals.some(lit => content.includes(lit))
PreCheckSkips(literals, content) ==
  /\ ~literals.isNull
  /\ ~\E k \in 1 .. Len(literals.list) : Includes(content, literals.list[k])

\* C38: the worker's literal pre-check never skips a file one of whose lines
\* the request's regular expression matches under the request's flag.
C38_PreCheckKeepsMatchingFiles ==
  (tgPc = "done" /\ Matches(tgPattern, tgIgnoreCase, tgText)) =>
    ~PreCheckSkips(ExtractLiterals(tgPattern), tgText)

\* The matching lines of all the files the worker was given.
RECURSIVE MatchingLines(_)
MatchingLines(files) ==
  IF files = <<>> THEN 0 ELSE Head(files) + MatchingLines(Tail(files))

\* C39: a /grep response says truncated = true whenever the scan stopped with
\* maxResults matches collected while the files held a further matching line.
C39_TruncatedWhenCut ==
  \A i \in 1 .. Len(gResponses) :
    (/\ gResponses[i].status = 200
     /\ gResponses[i].results >= gMaxResults
     /\ MatchingLines(gFiles) > gResponses[i].results)
      => gResponses[i].truncated

(***************************************************************************)
(* Claims about the setup GUI                                              *)
(***************************************************************************)

\* C40: after any sequence of create, rename and delete requests no two
\* workspaces of the configuration resolve to the same Docker volume prefix.
C40_VolumePrefixesDistinct ==
  \A i, j \in 1 .. Len(suWorkspaces) :
    i # j => VolumePrefixOf(suWorkspaces[i]) # VolumePrefixOf(suWorkspaces[j])

====
